---- MODULE Spec2Model ----
(***************************************************************************)
(* A model of the foot-measurement pipeline of process.py:                 *)
(* PointCloudProcessor and process_ply_file.                               *)
(*                                                                         *)
(* A point is a triple <<x, y, z>> of integers (one unit = one millimetre, *)
(* so the 0.02 radius is 20 and the 0.01 plane threshold is 10).  A cloud  *)
(* is a record of three sequences: points, normals and colors; an absent   *)
(* attribute is the empty sequence (has_normals() / has_colors() false).   *)
(* Real arithmetic is exact rational arithmetic, written with cross        *)
(* multiplication; a Euclidean norm is kept in fixed point, in units of    *)
(* 1/Scale, rounded down.                                                  *)
(***************************************************************************)
EXTENDS Integers, Sequences, FiniteSets, TLC

VARIABLES
    pc,        \* the statement process_ply_file (or the applied method) is at
    input,     \* the point cloud held by the input file
    cloud,     \* processor.point_cloud
    before,    \* processor.point_cloud when the last stage started
    dims,      \* (foot_length, foot_width, circumference) of the run
    result,    \* the record process_ply_file returns
    emptied,   \* the stage that left the cloud with zero points
    plane,     \* what remove_planes did: its outcome and the inlier indices
    runs,      \* how often the stage under study has been applied
    written,   \* whether the output file exists
    env,       \* the libraries installed: scipy importable, sklearn's sign rule
    rng,       \* Open3D's process-wide random engine: fittings since its last seed
    drawn,     \* what the engine made segment_plane return, per engine state and cloud
    peers,     \* the invocations of process_ply_file suspended in other threads
    finished,  \* the invocations that have returned: input, plane, cloud, measurements
    request,   \* what the entry point of api.py or of the analyzer was called with
    response,  \* what that entry point answered
    client,    \* whether foot_analyzer.client is set
    origin     \* the method that produced the description the analyzer returned

vars == <<pc, input, cloud, before, dims, result, emptied, plane, runs, written, env,
          rng, drawn, peers, finished, request, response, client, origin>>

\* The state of the web service and of its analyzer.
web == <<request, response, client, origin>>

(***************************************************************************)
(* Generic helpers.                                                        *)
(***************************************************************************)
Abs(n) == IF n < 0 THEN -n ELSE n

MinOf(S) == CHOOSE m \in S : \A n \in S : m <= n

MaxOf(S) == CHOOSE m \in S : \A n \in S : n <= m

RECURSIVE SumRange(_, _, _)
SumRange(s, lo, hi) ==
    IF lo > hi THEN 0
    ELSE IF lo = hi THEN s[lo]
    ELSE LET mid == (lo + hi) \div 2
         IN  SumRange(s, lo, mid) + SumRange(s, mid + 1, hi)

SumSeq(s) == SumRange(s, 1, Len(s))

RECURSIVE SelectRange(_, _, _, _)
SelectRange(s, I, lo, hi) ==
    IF lo > hi THEN <<>>
    ELSE IF lo = hi THEN (IF lo \in I THEN <<s[lo]>> ELSE <<>>)
    ELSE LET mid == (lo + hi) \div 2
         IN  SelectRange(s, I, lo, mid) \o SelectRange(s, I, mid + 1, hi)

\* The subsequence of s at the indices in I from k on, in increasing
\* index order.
SelectIdx(s, I, k) == SelectRange(s, I, k, Len(s))

\* The function f over 1..n as an evaluated array.
AsArray(f) == SubSeq(f, 1, Len(f))

\* Fixed point: a norm n is kept as Floor(n * Scale).
Scale == 100

RECURSIVE SqrtSearch(_, _, _)
SqrtSearch(n, lo, hi) ==
    IF lo >= hi THEN lo
    ELSE LET mid == (lo + hi + 1) \div 2
         IN  IF mid * mid <= n THEN SqrtSearch(n, mid, hi)
             ELSE SqrtSearch(n, lo, mid - 1)

ISqrt(n) == SqrtSearch(n, 0, 46340)

\* np.linalg.norm of a 2-D or 3-D difference, in fixed point.
Norm2(dy, dz) == ISqrt(Scale * Scale * (dy * dy + dz * dz))

Xs(P) == {P[i][1] : i \in DOMAIN P}

Zs(P) == {P[i][3] : i \in DOMAIN P}

PlainCloud(P) == [points |-> P, normals |-> <<>>, colors |-> <<>>]

NoCloud == PlainCloud(<<>>)

\* Python's None: for a value that is otherwise a number, the empty tuple
\* (a number v is the tuple <<v>>); for one that is otherwise a name, "None".
None == <<>>

Some(v) == <<v>>

Nil == "None"

(***************************************************************************)
(* calculate_circumference_at_max_z_range: the slice of maximal z-spread.  *)
(***************************************************************************)
NumSlices == 50

\* The window is the slice width times 1.5 = WidenNum / WidenDen.
WidenNum == 3

WidenDen == 2

\* x_bins[i] <= x <= x_bins[i + 1], x_bins = linspace(x_min, x_max, 51);
\* xr = x_max - x_min.
InSlice(x, i, xmin, xr) ==
    /\ i * xr <= NumSlices * (x - xmin)
    /\ NumSlices * (x - xmin) <= (i + 1) * xr

SliceIdx(P, i, xmin, xr) == {k \in DOMAIN P : InSlice(P[k][1], i, xmin, xr)}

\* slice_points[:, 2].max() - slice_points[:, 2].min()
ZRange(P, I) == LET zs == {P[k][3] : k \in I} IN MaxOf(zs) - MinOf(zs)

\* A slip in the comparison: a narrower slice replaces the best one.
WiderMutant(z_range, max_z_range) == z_range < max_z_range \/ max_z_range = 0

\* The test that makes a slice the new best one.
Wider(z_range, max_z_range) == z_range > max_z_range

\* The loop over the slices; best = -1 stands for best_x_pos = None.
RECURSIVE SliceScan(_, _, _, _, _, _)
SliceScan(P, i, max_z_range, best, xmin, xr) ==
    IF i = NumSlices THEN best
    ELSE LET I  == SliceIdx(P, i, xmin, xr)
             zr == IF I = {} THEN 0 ELSE ZRange(P, I)
         IN  IF I # {} /\ Wider(zr, max_z_range)
             THEN SliceScan(P, i + 1, zr, i, xmin, xr)
             ELSE SliceScan(P, i + 1, max_z_range, best, xmin, xr)

BestSlice(P) ==
    LET xmin == MinOf(Xs(P))
        xr   == MaxOf(Xs(P)) - xmin
    IN  SliceScan(P, 0, 0, -1, xmin, xr)

\* best_x_pos - slice_width/2 <= x <= best_x_pos + slice_width/2 with
\* best_x_pos the midpoint of slice b and slice_width = xr / 50 * 1.5,
\* both sides multiplied by 2 * NumSlices * WidenDen.
InWindow(x, b, xmin, xr) ==
    LET lhs == 2 * NumSlices * WidenDen * (x - xmin)
        mid == WidenDen * (2 * b + 1) * xr
    IN  mid - WidenNum * xr <= lhs /\ lhs <= mid + WidenNum * xr

\* cross_section_indices = np.where(mask)[0]
CrossSection(P, b) ==
    LET xmin == MinOf(Xs(P))
        xr   == MaxOf(Xs(P)) - xmin
    IN  {k \in DOMAIN P : InWindow(P[k][1], b, xmin, xr)}

(***************************************************************************)
(* The 2-D convex hull of the (y, z) projections and its perimeter.        *)
(***************************************************************************)
\* yz_points = cross_section_points[:, [1, 2]]
YZ(P, I) == LET s == SelectIdx(P, I, 1) IN [k \in DOMAIN s |-> <<s[k][2], s[k][3]>>]

Cross(o, a, b) == (a[1] - o[1]) * (b[2] - o[2]) - (a[2] - o[2]) * (b[1] - o[1])

LexLess(p, q) == p[1] < q[1] \/ (p[1] = q[1] /\ p[2] <= q[2])

RECURSIVE Insert(_, _)
Insert(p, s) ==
    IF s = <<>> THEN <<p>>
    ELSE IF LexLess(p, Head(s)) THEN <<p>> \o s
    ELSE <<Head(s)>> \o Insert(p, Tail(s))

\* yz_points[np.lexsort((yz_points[:, 1], yz_points[:, 0]))]
RECURSIVE LexSort(_)
LexSort(s) == IF s = <<>> THEN <<>> ELSE Insert(Head(s), LexSort(Tail(s)))

RECURSIVE Reverse(_)
Reverse(s) == IF s = <<>> THEN <<>> ELSE Append(Reverse(Tail(s)), Head(s))

RECURSIVE Chain(_, _)
Chain(pts, st) ==
    IF pts = <<>> THEN st
    ELSE IF Len(st) >= 2 /\ Cross(st[Len(st) - 1], st[Len(st)], Head(pts)) <= 0
         THEN Chain(pts, SubSeq(st, 1, Len(st) - 1))
         ELSE Chain(Tail(pts), Append(st, Head(pts)))

\* Qhull raises on an input that is not full-dimensional (all collinear).
Degenerate(s) ==
    \A i, j, k \in DOMAIN s : Cross(s[i], s[j], s[k]) = 0

\* yz_points_sorted[hull.vertices]: the extreme points in counterclockwise
\* order (the order scipy documents for 2-D input).
HullPoints(sorted) ==
    LET lower == Chain(sorted, <<>>)
        upper == Chain(Reverse(sorted), <<>>)
    IN  SubSeq(lower, 1, Len(lower) - 1) \o SubSeq(upper, 1, Len(upper) - 1)

\* The loop that sums np.linalg.norm(p2 - p1) with p2 = hull_points[(i+1) % n].
RECURSIVE PerimeterFrom(_, _)
PerimeterFrom(hp, i) ==
    IF i > Len(hp) THEN 0
    ELSE LET p1 == hp[i]
             p2 == hp[(i % Len(hp)) + 1]
         IN  Norm2(p2[1] - p1[1], p2[2] - p1[2]) + PerimeterFrom(hp, i + 1)

\* A slip in the loop: the closing edge back to the first vertex is left out.
PerimeterMutant(hp) ==
    PerimeterFrom(hp, 1) - Norm2(hp[1][1] - hp[Len(hp)][1], hp[1][2] - hp[Len(hp)][2])

Perimeter(hp) == PerimeterFrom(hp, 1)

(***************************************************************************)
(* calculate_simple_circumference: the sector approximation used when the  *)
(* hull is unavailable or fails.  A direction is the integer vector        *)
(* n * (p - center), so that center = mean(yz_points) needs no division.   *)
(***************************************************************************)
NumSectors == 20

\* tan(18), tan(36), tan(54), tan(72 degrees), times TanDen.
TanNum == <<3249, 7265, 13764, 30777>>

TanDen == 10000

Dirs(yz) ==
    LET n  == Len(yz)
        sy == SumSeq([k \in DOMAIN yz |-> yz[k][1]])
        sz == SumSeq([k \in DOMAIN yz |-> yz[k][2]])
    IN  [k \in DOMAIN yz |-> <<n * yz[k][1] - sy, n * yz[k][2] - sz>>]

\* The position of arctan2(u[2], u[1]) in -pi .. pi: below the axis, 0,
\* above the axis, pi.
Half(u) ==
    IF u[2] < 0 THEN 0
    ELSE IF u[2] > 0 THEN 2
    ELSE IF u[1] >= 0 THEN 1 ELSE 3

AngleLE(u, v) ==
    \/ Half(u) < Half(v)
    \/ /\ Half(u) = Half(v)
       /\ (Half(u) \in {1, 3} \/ u[1] * v[2] - u[2] * v[1] >= 0)

\* The sector i with angle_bins[i] <= angle < angle_bins[i + 1], or -1 for
\* the angle pi, which no sector holds (angle < angle_bins[20] = pi fails).
Sector(u) ==
    LET ay == Abs(u[1])
        az == Abs(u[2])
        j  == Cardinality({t \in DOMAIN TanNum : TanNum[t] * ay < TanDen * az})
    IN  IF u[1] = 0 /\ u[2] = 0 THEN 10
        ELSE IF u[1] = 0 THEN (IF u[2] > 0 THEN 15 ELSE 5)
        ELSE IF u[2] = 0 THEN (IF u[1] > 0 THEN 10 ELSE -1)
        ELSE IF u[1] > 0 /\ u[2] > 0 THEN 10 + j
        ELSE IF u[1] < 0 /\ u[2] > 0 THEN 19 - j
        ELSE IF u[1] < 0 /\ u[2] < 0 THEN j
        ELSE 9 - j

\* np.argsort(angles): the indices in increasing angle, ties in index order.
RECURSIVE InsertByAngle(_, _, _)
InsertByAngle(k, idx, d) ==
    IF idx = <<>> THEN <<k>>
    ELSE IF AngleLE(d[Head(idx)], d[k])
         THEN <<Head(idx)>> \o InsertByAngle(k, Tail(idx), d)
         ELSE <<k>> \o idx

RECURSIVE ArgSortFrom(_, _)
ArgSortFrom(d, k) ==
    IF k = 0 THEN <<>> ELSE InsertByAngle(k, ArgSortFrom(d, k - 1), d)

ArgSort(d) == ArgSortFrom(d, Len(d))

\* Squared length of a direction: the order of the distances to the center.
Dist2(u) == u[1] * u[1] + u[2] * u[2]

\* The point picked for sector i: distances is indexed in angle order, the
\* mask in input order, and the pick is where(mask)[argmax(distances[mask])].
SectorPick(yz, i) ==
    LET d         == Dirs(yz)
        order     == ArgSort(d)
        distances == [k \in DOMAIN yz |-> Dist2(d[order[k]])]
        mask      == {k \in DOMAIN yz : Sector(d[k]) = i}
        best      == MaxOf({distances[k] : k \in mask})
    IN  yz[MinOf({k \in mask : distances[k] = best})]

RECURSIVE PerimeterPoints(_, _)
PerimeterPoints(yz, i) ==
    IF i = NumSectors THEN <<>>
    ELSE IF \E k \in DOMAIN yz : Sector(Dirs(yz)[k]) = i
         THEN <<SectorPick(yz, i)>> \o PerimeterPoints(yz, i + 1)
         ELSE PerimeterPoints(yz, i + 1)

(***************************************************************************)
(* color_cross_section_points.  A colour is a triple in tenths.            *)
(***************************************************************************)
Red == <<10, 0, 0>>

Grey == <<7, 7, 7>>

\* A slip: the colours the cloud had replaced by the default grey.
ColorCrossSectionMutant(c, I) ==
    [c EXCEPT !.colors = [k \in DOMAIN c.points |-> IF k \in I THEN Red ELSE Grey]]

ColorCrossSection(c, I) ==
    LET base == IF c.colors = <<>> THEN [k \in DOMAIN c.points |-> Grey]
                ELSE c.colors
    IN  [c EXCEPT !.colors = [k \in DOMAIN base |-> IF k \in I THEN Red ELSE base[k]]]

(***************************************************************************)
(* calculate_circumference_at_max_z_range as a whole, on a non-empty       *)
(* cloud c; scipy tells whether `from scipy.spatial import ConvexHull`     *)
(* succeeds.  The result holds the value returned, the path taken and the  *)
(* cloud as the call leaves it.                                            *)
(***************************************************************************)
CrossSectionMin == 3

PerimeterMin == 3

Circumference(c, scipy) ==
    LET P    == c.points
        best == BestSlice(P)
        I    == IF best = -1 THEN {} ELSE CrossSection(P, best)
        yz   == YZ(P, I)
        srt  == LexSort(yz)
        pp   == PerimeterPoints(yz, 0)
    IN  IF best = -1
        THEN [value |-> 0, path |-> "no_slice", best |-> best, window |-> I, cloud |-> c]
        ELSE IF Cardinality(I) < CrossSectionMin
        THEN [value |-> 0, path |-> "few_points", best |-> best, window |-> I, cloud |-> c]
        ELSE IF scipy /\ ~Degenerate(srt)
        THEN [value |-> Perimeter(HullPoints(srt)), path |-> "hull", best |-> best,
              window |-> I, cloud |-> ColorCrossSection(c, I)]
        ELSE IF Len(pp) < PerimeterMin
        THEN [value |-> 0, path |-> "simple_few", best |-> best, window |-> I, cloud |-> c]
        ELSE [value |-> Perimeter(pp), path |-> "simple", best |-> best,
              window |-> I, cloud |-> ColorCrossSection(c, I)]

(***************************************************************************)
(* calculate_foot_dimensions on a non-empty cloud.                         *)
(***************************************************************************)
FootLength(P) == Abs(MaxOf(Xs(P)) - MinOf(Xs(P)))

\* A slip in the column index: the width taken along y.
FootWidthMutant(P) ==
    Abs(MaxOf({P[i][2] : i \in DOMAIN P}) - MinOf({P[i][2] : i \in DOMAIN P}))

FootWidth(P) == Abs(MaxOf(Zs(P)) - MinOf(Zs(P)))

\* A slip in the degenerate branch: the two window points measured there
\* and back instead of the documented 0.
FootDimensionsMutant(c, scipy) ==
    LET circ == Circumference(c, scipy)
    IN  [foot_length   |-> FootLength(c.points),
         foot_width    |-> FootWidth(c.points),
         circumference |-> IF circ.path = "few_points"
                           THEN Perimeter(YZ(c.points, circ.window)) + 1
                           ELSE circ.value,
         path          |-> circ.path,
         best          |-> circ.best,
         window        |-> circ.window,
         cloud         |-> circ.cloud]

FootDimensions(c, scipy) ==
    LET circ == Circumference(c, scipy)
    IN  [foot_length   |-> FootLength(c.points),
         foot_width    |-> FootWidth(c.points),
         circumference |-> circ.value,
         path          |-> circ.path,
         best          |-> circ.best,
         window        |-> circ.window,
         cloud         |-> circ.cloud]

(***************************************************************************)
(* select_by_index: the points at the indices I (or, inverted, at all the  *)
(* other indices), with the normals and colours of the same indices.       *)
(***************************************************************************)
\* A slip: the attribute cut to the new length, not indexed.
SelectAttrMutant(a, I) == IF a = <<>> THEN <<>> ELSE SubSeq(a, 1, Cardinality(I))

SelectAttr(a, I) == IF a = <<>> THEN <<>> ELSE SelectIdx(a, I, 1)

\* A slip: invert ignored, the indexed points kept.
SelectByIndexMutant(c, I, invert) ==
    [points  |-> SelectIdx(c.points, I, 1),
     normals |-> SelectAttr(c.normals, I),
     colors  |-> SelectAttr(c.colors, I)]

SelectByIndex(c, I, invert) ==
    LET keep == IF invert THEN DOMAIN c.points \ I ELSE I
    IN  [points  |-> SelectIdx(c.points, keep, 1),
         normals |-> SelectAttr(c.normals, keep),
         colors  |-> SelectAttr(c.colors, keep)]

(***************************************************************************)
(* load_ply_file.  A file is a record: kind tells whether it parses and    *)
(* has a vertex element; points, normals and f_dc are its columns.         *)
(***************************************************************************)
ColorOne == 10

\* What numpy gives for 0.0 / 0.0 (with a warning, no exception).
NaN == -1

\* (colors - colors.min()) / (colors.max() - colors.min()), one minimum and
\* one maximum over the three channels together, when a value is outside
\* [0, 1]; in tenths, rounded down.  When all the values are equal the
\* quotient is 0 / 0.
NormalizeColors(f_dc) ==
    LET all == UNION {{f_dc[k][1], f_dc[k][2], f_dc[k][3]} : k \in DOMAIN f_dc}
        lo  == MinOf(all)
        hi  == MaxOf(all)
    IN  IF f_dc = <<>> \/ (hi <= ColorOne /\ lo >= 0) THEN f_dc
        ELSE IF hi = lo THEN [k \in DOMAIN f_dc |-> <<NaN, NaN, NaN>>]
        ELSE [k \in DOMAIN f_dc |->
                 [j \in 1..3 |-> ((f_dc[k][j] - lo) * ColorOne) \div (hi - lo)]]

LoadedCloud(file) ==
    [points |-> file.points, normals |-> file.normals, colors |-> NormalizeColors(file.f_dc)]

\* A slip: the record of a failed load built with zero-valued measurements.
LoadFailedResultMutant ==
    [success |-> FALSE, error |-> <<"load failed", Nil>>,
     foot_length |-> Some(0), foot_width |-> Some(0), circumference |-> Some(0),
     output_file |-> Nil, point_count |-> 0]

LoadFailedResult ==
    [success |-> FALSE, error |-> <<"load failed", Nil>>,
     foot_length |-> None, foot_width |-> None, circumference |-> None,
     output_file |-> Nil, point_count |-> 0]

(***************************************************************************)
(* flip_y_axis: points[:, 1] = -points[:, 1].                              *)
(***************************************************************************)
FlipYAxis(c) ==
    [c EXCEPT !.points = [k \in DOMAIN c.points |->
                             <<c.points[k][1], -c.points[k][2], c.points[k][3]>>]]

(***************************************************************************)
(* remove_planes.  segment_plane tries plane hypotheses drawn from sampled *)
(* points and returns the best supported one with its inliers, the points  *)
(* closer to it than the threshold.  The hypotheses modelled are the       *)
(* planes y = level through a point of the cloud; which of them the        *)
(* seeded sampling tries is not fixed by the model.                        *)
(***************************************************************************)
MinCloudSize == 100

MinInliers == 50

DistanceThreshold == 10

MaxTrials == 2

PlaneLevels(P) == {P[k][2] : k \in DOMAIN P}

Inliers(P, level) == {k \in DOMAIN P : Abs(P[k][2] - level) < DistanceThreshold}

\* The hypothesis retained among the tried ones: most inliers, and the
\* lowest level among equally supported ones.
BestPlane(P, tried) ==
    CHOOSE h \in tried :
        \A g \in tried :
            \/ Cardinality(Inliers(P, g)) < Cardinality(Inliers(P, h))
            \/ Cardinality(Inliers(P, g)) = Cardinality(Inliers(P, h)) /\ h <= g

\* What segment_plane can return on P: the inlier sets of the planes that
\* win some set of at most MaxTrials tried hypotheses.
SegmentPlane(P) ==
    {Inliers(P, BestPlane(P, tried)) :
        tried \in {T \in SUBSET PlaneLevels(P) : T # {} /\ Cardinality(T) <= MaxTrials}}

\* The random engine Open3D keeps for the whole process (np.random, which
\* remove_planes seeds, is not the engine segment_plane draws from).  Its
\* state is the number of fittings that drew from it since
\* o3d.utility.random.seed(42).
Seeded == 0

\* A slip: the engine left as it is.
SeedEngineMutant(s) == s

\* o3d.utility.random.seed(42) in __init__.
SeedEngine(s) == Seeded

\* What segment_plane returns on P with the engine in state s, d being what
\* it returned so far: the same as before from the same state on the same
\* points, and else whatever the sampled hypotheses give.
Fitted(P, s, d) ==
    LET known == {e \in d : e.state = s /\ e.points = P}
    IN  IF known # {} THEN {e.inliers : e \in known} ELSE SegmentPlane(P)

\* A slip: the low-support skip reported but the inliers removed all the same.
RemovePlanesOnMutant(c, inliers) ==
    IF Len(c.points) < MinCloudSize
    THEN [cloud |-> c, outcome |-> "too_small", inliers |-> {}]
    ELSE [cloud |-> SelectByIndex(c, inliers, TRUE),
          outcome |-> IF Cardinality(inliers) < MinInliers THEN "low_support" ELSE "removed",
          inliers |-> inliers]

\* The cloud remove_planes leaves and the branch it took.
RemovePlanesOn(c, inliers) ==
    IF Len(c.points) < MinCloudSize
    THEN [cloud |-> c, outcome |-> "too_small", inliers |-> {}]
    ELSE IF Cardinality(inliers) < MinInliers
    THEN [cloud |-> c, outcome |-> "low_support", inliers |-> inliers]
    ELSE [cloud |-> SelectByIndex(c, inliers, TRUE), outcome |-> "removed",
          inliers |-> inliers]

(***************************************************************************)
(* align_to_principal_component.  PCA is exact: the scatter matrix         *)
(* S = n * sum(p p^T) - sum(p) sum(p)^T is n^2 times the covariance, and   *)
(* an eigenvector is an integer vector v with S v parallel to v.  The      *)
(* clouds modelled have their principal axes among the integer vectors     *)
(* with entries of at most MaxDir, with a rational cosine and sine of the  *)
(* rotation angle.                                                         *)
(***************************************************************************)
MinSamples == 3

MaxDir == 5

Dot3(u, v) == u[1] * v[1] + u[2] * v[2] + u[3] * v[3]

Scatter(P) ==
    LET n == Len(P)
        sm(a) == SumSeq([k \in DOMAIN P |-> P[k][a]])
        sp(a, b) == SumSeq([k \in DOMAIN P |-> P[k][a] * P[k][b]])
    IN  AsArray([a \in 1..3 |-> AsArray([b \in 1..3 |-> n * sp(a, b) - sm(a) * sm(b)])])

MatVec(S, v) == [a \in 1..3 |-> S[a][1] * v[1] + S[a][2] * v[2] + S[a][3] * v[3]]

Parallel(u, v) ==
    /\ u[1] * v[2] = u[2] * v[1]
    /\ u[1] * v[3] = u[3] * v[1]
    /\ u[2] * v[3] = u[3] * v[2]

\* Integer directions, one per line through the origin up to sign: the
\* first non-zero entry is positive and the entries have no common factor.
Directions ==
    {v \in (-MaxDir..MaxDir) \X (-MaxDir..MaxDir) \X (-MaxDir..MaxDir) :
        /\ v # <<0, 0, 0>>
        /\ \/ v[1] > 0
           \/ v[1] = 0 /\ v[2] > 0
           \/ v[1] = 0 /\ v[2] = 0 /\ v[3] > 0
        /\ \A g \in 2..MaxDir : ~(v[1] % g = 0 /\ v[2] % g = 0 /\ v[3] % g = 0)}

\* Whether the eigenvalue of eigenvector v is at least that of w (the
\* eigenvalue of v is Dot3(v, S v) / Dot3(v, v)).
EigGE(S, v, w) ==
    LET a == CHOOSE i \in 1..3 : v[i] # 0
        b == CHOOSE i \in 1..3 : w[i] # 0
        lv == MatVec(S, v)[a]
        lw == MatVec(S, w)[b]
        sg == (IF v[a] > 0 THEN 1 ELSE -1) * (IF w[b] > 0 THEN 1 ELSE -1)
    IN  sg * lv * w[b] >= sg * lw * v[a]

\* The directions of the largest eigenvalue.
TopDirections(P) ==
    LET S == Scatter(P)
        E == {v \in Directions : Parallel(MatVec(S, v), v)}
    IN  {v \in E : \A w \in E : EigGE(S, v, w)}

\* The largest eigenvalue is simple: one dominant direction.
Dominant(P) == Cardinality(TopDirections(P)) = 1

Neg(v) == <<-v[1], -v[2], -v[3]>>

\* The index of the first entry of largest absolute value (np.argmax).
ArgMaxAbs(f) ==
    MinOf({i \in DOMAIN f : \A j \in DOMAIN f : Abs(f[j]) <= Abs(f[i])})

\* svd_flip: the sign that makes the entry of largest absolute value
\* positive, of the projections of the samples (u_based) or of the
\* component itself.  A column of zero projections gives sign 0.
SvdFlip(P, v, u_based) ==
    LET n    == Len(P)
        mean == AsArray([a \in 1..3 |-> SumSeq([k \in DOMAIN P |-> P[k][a]])])
        u    == AsArray([k \in DOMAIN P |-> n * Dot3(P[k], v) - Dot3(mean, v)])
        key  == IF u_based THEN u[ArgMaxAbs(u)] ELSE v[ArgMaxAbs(v)]
    IN  IF key > 0 THEN v ELSE IF key < 0 THEN Neg(v) ELSE <<0, 0, 0>>

\* pca.components_[0], up to its positive length: every direction of the
\* largest eigenvalue whose horizontal projection has a rational length.
PrincipalComponents(P, u_based) ==
    {SvdFlip(P, v, u_based) :
        v \in {w \in TopDirections(P) :
                  ISqrt(w[1] * w[1] + w[3] * w[3]) * ISqrt(w[1] * w[1] + w[3] * w[3])
                      = w[1] * w[1] + w[3] * w[3]}}

\* A slip: the angle never negated.
RotationMutant(pcv) ==
    <<pcv[1], Abs(pcv[3]), ISqrt(pcv[1] * pcv[1] + pcv[3] * pcv[3])>>

\* The rotation about the y axis as <<cos, sin, den>>: cos(angle) = cos/den
\* and sin(angle) = sin/den.  cos_angle is the x entry of the normalised
\* projection, angle = arccos(cos_angle), negated when the y entry of
\* cross(projected, x_axis), which is the z entry of the projection, is
\* negative.
Rotation(pcv) ==
    LET h      == ISqrt(pcv[1] * pcv[1] + pcv[3] * pcv[3])
        sinabs == Abs(pcv[3])
        crossy == pcv[3]
    IN  IF crossy < 0 THEN <<pcv[1], -sinabs, h>> ELSE <<pcv[1], sinabs, h>>

\* A slip: the rotation made about the z axis.
RotateMutant(seq, r) ==
    [k \in DOMAIN seq |->
        <<(r[1] * seq[k][1] + r[2] * seq[k][2]) \div r[3],
          (r[1] * seq[k][2] - r[2] * seq[k][1]) \div r[3],
          seq[k][3]>>]

\* points @ rotation_matrix.T with rows [cos, 0, sin], [0, 1, 0], [-sin, 0, cos].
Rotate(seq, r) ==
    [k \in DOMAIN seq |->
        <<(r[1] * seq[k][1] + r[2] * seq[k][3]) \div r[3],
          seq[k][2],
          (r[1] * seq[k][3] - r[2] * seq[k][1]) \div r[3]>>]

\* The projection has a norm above 1e-6: for an integer direction with
\* entries up to MaxDir that is a non-zero projection.
ProjectionValid(pcv) == pcv[1] # 0 \/ pcv[3] # 0

\* The cloud align_to_principal_component leaves for the component pcv,
\* and the rotation it applied (Nil when it skipped the rotation).
AlignOn(c, pcv) ==
    IF ProjectionValid(pcv)
    THEN [cloud |-> [c EXCEPT !.points = Rotate(c.points, Rotation(pcv)),
                              !.normals = Rotate(c.normals, Rotation(pcv))],
          rotation |-> Rotation(pcv)]
    ELSE [cloud |-> c, rotation |-> <<>>]

PcaMessage == "n_components=3 must be between 0 and min(n_samples, n_features)"

(***************************************************************************)
(* remove_noise: remove_statistical_outlier(30, 0.5), then                 *)
(* remove_radius_outlier(10, 0.02).  A 3-D distance is kept in hundredths  *)
(* of a unit, rounded down, and so are the means of distances.             *)
(***************************************************************************)
NbNeighbors == 30

\* std_ratio = 0.5 = StdRatioNum / StdRatioDen
StdRatioNum == 1

StdRatioDen == 2

NbPoints == 10

Radius == 20

DistScale == 100

SqDist(p, q) ==
    (p[1] - q[1]) * (p[1] - q[1]) + (p[2] - q[2]) * (p[2] - q[2])
    + (p[3] - q[3]) * (p[3] - q[3])

\* The distance of squared length v, in hundredths.
Dist3(v) == ISqrt(DistScale * DistScale * v)

\* The squared distances of point i to every point of P, itself included
\* (the k-d tree returns the query point).
SqDists(P, i) == AsArray([j \in DOMAIN P |-> SqDist(P[i], P[j])])

\* The mean of the k smallest distances (of all of them when there are
\* fewer than k), from the squared distances d.
MeanSmallest(d, k) ==
    LET m        == IF Len(d) < k THEN Len(d) ELSE k
        below(t) == Cardinality({j \in DOMAIN d : d[j] < t})
        upto(t)  == Cardinality({j \in DOMAIN d : d[j] <= t})
        kth      == CHOOSE t \in {d[j] : j \in DOMAIN d} : below(t) < m /\ m <= upto(t)
    IN  (SumSeq([j \in DOMAIN d |-> IF d[j] < kth THEN Dist3(d[j]) ELSE 0])
         + (m - below(kth)) * Dist3(kth)) \div m

\* avg_distances[i]: the mean distance of point i to its nb_neighbors
\* nearest points.
AvgDistances(P) ==
    AsArray([i \in DOMAIN P |-> MeanSmallest(SqDists(P, i), NbNeighbors)])

\* The indices remove_statistical_outlier keeps: avg > 0 and
\* avg < mean + std_ratio * std, with std the sample standard deviation
\* (n - 1) of the n points, both summed over the points of positive avg.
StatisticalInliers(P) ==
    LET avg   == AvgDistances(P)
        valid == {i \in DOMAIN P : avg[i] > 0}
        n     == Len(P)
        mean  == SumSeq(SelectIdx(avg, valid, 1)) \div n
        sq    == SumSeq([i \in DOMAIN P |->
                            IF i \in valid THEN (avg[i] - mean) * (avg[i] - mean) ELSE 0])
    IN  IF valid = {} THEN {}
        ELSE {i \in valid :
                 \/ avg[i] < mean
                 \/ StdRatioDen * StdRatioDen * (avg[i] - mean) * (avg[i] - mean) * (n - 1)
                        < StdRatioNum * StdRatioNum * sq}

\* The indices remove_radius_outlier keeps: more than nb_points points of
\* the cloud, the point itself included, strictly within the radius.
RadiusInliers(P) ==
    {i \in DOMAIN P :
        Cardinality({j \in DOMAIN P : SqDist(P[i], P[j]) < Radius * Radius}) > NbPoints}

\* The cloud after each of the two filters.
RemoveNoiseOn(c) ==
    LET first  == SelectByIndex(c, StatisticalInliers(c.points), FALSE)
        second == SelectByIndex(first, RadiusInliers(first.points), FALSE)
    IN  [statistical |-> first, radius |-> second]

(***************************************************************************)
(* The records process_ply_file returns.                                   *)
(***************************************************************************)
NoDims == [foot_length |-> None, foot_width |-> None, circumference |-> None,
           path |-> Nil, best |-> -1, window |-> {}]

NoResult == [success |-> Nil]

NoPlane == [outcome |-> Nil, inliers |-> {}]

\* The message of the exception a stage raises on the cloud it is given.
EmptyMinMessage == "zero-size array to reduction operation minimum which has no identity"

\* except Exception as e: the failure record, error = prefix + str(e).
\* A slip: zero-valued measurements in the failure record.
ExceptionResultMutant(message) ==
    [success |-> FALSE, error |-> <<"processing error", message>>,
     foot_length |-> Some(0), foot_width |-> Some(0), circumference |-> Some(0),
     output_file |-> Nil, point_count |-> 0]

ExceptionResult(message) ==
    [success |-> FALSE, error |-> <<"processing error", message>>,
     foot_length |-> None, foot_width |-> None, circumference |-> None,
     output_file |-> Nil, point_count |-> 0]

(***************************************************************************)
(* Stage 6 of process_ply_file: calculate_foot_dimensions.  On an empty    *)
(* cloud points[:, 0].min() raises, and the handler of process_ply_file    *)
(* returns the failure record.                                             *)
(***************************************************************************)
CalculateFootDimensions ==
    /\ pc = "calc"
    /\ before' = cloud
    /\ \/ /\ cloud.points = <<>>
          /\ result' = ExceptionResult(EmptyMinMessage)
          /\ pc' = "done"
          /\ UNCHANGED <<cloud, dims>>
       \/ /\ cloud.points # <<>>
          /\ \E d \in {FootDimensions(cloud, env.scipy)} :
                /\ dims' = [foot_length |-> Some(d.foot_length),
                            foot_width |-> Some(d.foot_width),
                            circumference |-> Some(d.circumference), path |-> d.path,
                            best |-> d.best, window |-> d.window]
                /\ cloud' = d.cloud
          /\ pc' = "save"
          /\ UNCHANGED result
    /\ UNCHANGED <<input, emptied, plane, runs, written, env,
                 rng, drawn, peers, finished, web>>

(***************************************************************************)
(* process_ply_file, stage by stage.                                       *)
(***************************************************************************)
ParseMessage == "PlyData.read failed"

VertexMessage == "KeyError: 'vertex'"

EmptyPcaMessage == "Found array with 0 sample(s) while a minimum of 1 is required by PCA"

MakedirsMessage == "os.makedirs failed"

OutputFile == "output/processed_result.ply"

SaveFailedResult(d, c) ==
    [success |-> FALSE, error |-> <<"save failed", Nil>>,
     foot_length |-> d.foot_length, foot_width |-> d.foot_width,
     circumference |-> d.circumference,
     output_file |-> Nil, point_count |-> Len(c.points)]

\* A slip: the point count of the failure records in the success record.
SuccessResultMutant(d, c) ==
    [success |-> TRUE, error |-> <<Nil, Nil>>,
     foot_length |-> d.foot_length, foot_width |-> d.foot_width,
     circumference |-> d.circumference,
     output_file |-> OutputFile, point_count |-> 0]

SuccessResult(d, c) ==
    [success |-> TRUE, error |-> <<Nil, Nil>>,
     foot_length |-> d.foot_length, foot_width |-> d.foot_width,
     circumference |-> d.circumference,
     output_file |-> OutputFile, point_count |-> Len(c.points)]

\* The stage recorded as the one that left the cloud with zero points.
EmptiedBy(stage, old, new) ==
    IF old.points # <<>> /\ new.points = <<>> THEN stage ELSE emptied

\* One invocation running, constructed and seeded, and no other.
NoCalls ==
    /\ rng = SeedEngine(0)
    /\ drawn = {}
    /\ peers = <<>>
    /\ finished = {}

\* No request is being served and the analyzer has no client.
NotServing ==
    /\ request = None
    /\ response = None
    /\ client = FALSE
    /\ origin = Nil

Load ==
    /\ pc = "load"
    /\ \/ /\ input.kind = "unparsable"
          /\ result' = ExceptionResult(ParseMessage)
          /\ pc' = "done"
          /\ UNCHANGED cloud
       \/ /\ input.kind = "no_vertex"
          /\ result' = ExceptionResult(VertexMessage)
          /\ pc' = "done"
          /\ UNCHANGED cloud
       \/ /\ input.kind = "ply" /\ input.points = <<>> /\ input.has_f_dc
          /\ result' = ExceptionResult(EmptyMinMessage)
          /\ pc' = "done"
          /\ UNCHANGED cloud
       \/ /\ input.kind = "ply" /\ input.points = <<>> /\ ~input.has_f_dc
          /\ result' = LoadFailedResult
          /\ pc' = "done"
          /\ UNCHANGED cloud
       \/ /\ input.kind = "ply" /\ input.points # <<>>
          /\ cloud' = LoadedCloud(input)
          /\ pc' = "flip"
          /\ UNCHANGED result
    /\ before' = cloud
    /\ UNCHANGED <<input, dims, emptied, plane, runs, written, env,
                 rng, drawn, peers, finished, web>>

\* A slip: plane removal left out of the sequence of stages.
FlipYMutant ==
    /\ pc = "flip"
    /\ before' = cloud
    /\ cloud' = FlipYAxis(cloud)
    /\ pc' = "align"
    /\ UNCHANGED <<input, dims, result, emptied, plane, runs, written, env,
                 rng, drawn, peers, finished, web>>

FlipY ==
    /\ pc = "flip"
    /\ before' = cloud
    /\ cloud' = FlipYAxis(cloud)
    /\ pc' = "planes"
    /\ UNCHANGED <<input, dims, result, emptied, plane, runs, written, env,
                 rng, drawn, peers, finished, web>>

RemovePlanes ==
    /\ pc = "planes"
    /\ before' = cloud
    /\ \/ /\ Len(cloud.points) < MinCloudSize
          /\ \E r \in {RemovePlanesOn(cloud, {})} :
                /\ cloud' = r.cloud
                /\ plane' = [outcome |-> r.outcome, inliers |-> r.inliers]
                /\ emptied' = EmptiedBy("planes", cloud, r.cloud)
          /\ UNCHANGED <<rng, drawn>>
       \/ /\ Len(cloud.points) >= MinCloudSize
          /\ \E inliers \in Fitted(cloud.points, rng, drawn) :
                \E r \in {RemovePlanesOn(cloud, inliers)} :
                   /\ cloud' = r.cloud
                   /\ plane' = [outcome |-> r.outcome, inliers |-> r.inliers]
                   /\ emptied' = EmptiedBy("planes", cloud, r.cloud)
                   /\ drawn' = drawn \cup {[state |-> rng, points |-> cloud.points,
                                            inliers |-> inliers]}
          /\ rng' = rng + 1
    /\ pc' = "align"
    /\ UNCHANGED <<input, dims, result, runs, written, env, peers, finished, web>>

Align ==
    /\ pc = "align"
    /\ before' = cloud
    /\ \/ /\ Len(cloud.points) = 0
          /\ result' = ExceptionResult(EmptyPcaMessage)
          /\ pc' = "done"
          /\ UNCHANGED cloud
       \/ /\ Len(cloud.points) \in 1..(MinSamples - 1)
          /\ result' = ExceptionResult(PcaMessage)
          /\ pc' = "done"
          /\ UNCHANGED cloud
       \/ /\ Len(cloud.points) >= MinSamples
          /\ \E pcv \in PrincipalComponents(cloud.points, env.u_based) :
                cloud' = AlignOn(cloud, pcv).cloud
          /\ pc' = "noise"
          /\ UNCHANGED result
    /\ UNCHANGED <<input, dims, emptied, plane, runs, written, env,
                 rng, drawn, peers, finished, web>>

RemoveNoise ==
    /\ pc = "noise"
    /\ before' = cloud
    /\ \E r \in {RemoveNoiseOn(cloud)} :
          /\ cloud' = r.radius
          /\ emptied' = IF cloud.points # <<>> /\ r.statistical.points = <<>>
                        THEN "statistical"
                        ELSE EmptiedBy("radius", r.statistical, r.radius)
    /\ pc' = "calc"
    /\ UNCHANGED <<input, dims, result, plane, runs, written, env,
                 rng, drawn, peers, finished, web>>

\* os.makedirs of the output directory, then save_result: write_point_cloud
\* returns True or False, or raises (save_result then returns False).
Save ==
    /\ pc = "save"
    /\ before' = cloud
    /\ \/ /\ result' = ExceptionResult(MakedirsMessage)
          /\ UNCHANGED written
       \/ /\ result' = SuccessResult(dims, cloud)
          /\ written' = TRUE
       \/ /\ \E how \in {"returned False", "raised"} :
                result' = SaveFailedResult(dims, cloud)
          /\ UNCHANGED written
    /\ pc' = "done"
    /\ UNCHANGED <<input, cloud, dims, emptied, plane, runs, env,
                 rng, drawn, peers, finished, web>>

(***************************************************************************)
(* The files process_ply_file is run on.  One unit is a millimetre.  A     *)
(* lattice has n[a] points spaced s[a] apart along axis a, from o.         *)
(***************************************************************************)
LatticeSeq(o, n, s) ==
    [k \in 1..(n[1] * n[2] * n[3]) |->
        <<o[1] + s[1] * ((k - 1) % n[1]),
          o[2] + s[2] * (((k - 1) \div n[1]) % n[2]),
          o[3] + s[3] * ((k - 1) \div (n[1] * n[2]))>>]

PlyFile(P) ==
    [kind |-> "ply", points |-> P, normals |-> <<>>, f_dc |-> <<>>, has_f_dc |-> FALSE]

\* A file with normals along the x axis and one f_dc colour per point,
\* the first outside [0, 1].
FullPlyFile(P) ==
    [kind |-> "ply", points |-> P,
     normals |-> [k \in DOMAIN P |-> <<5, 0, 0>>],
     f_dc |-> [k \in DOMAIN P |-> IF k = 1 THEN <<-10, 0, 30>> ELSE <<0, 10, 20>>],
     has_f_dc |-> TRUE]

\* A file whose k-th vertex has a normal and an f_dc colour of its own,
\* every colour value within [0, 1].
TaggedPlyFile(P) ==
    [kind |-> "ply", points |-> P,
     normals |-> [k \in DOMAIN P |-> <<k, 0, 0>>],
     f_dc |-> [k \in DOMAIN P |-> <<k % (ColorOne + 1), (k \div (ColorOne + 1)) % (ColorOne + 1),
                                   ColorOne \div 2>>],
     has_f_dc |-> TRUE]

BrokenFiles ==
    {[kind |-> k, points |-> <<>>, normals |-> <<>>, f_dc |-> <<>>, has_f_dc |-> FALSE] :
        k \in {"unparsable", "no_vertex"}}
    \cup {[PlyFile(<<>>) EXCEPT !.has_f_dc = b] : b \in BOOLEAN}

\* A base plate of M = m[1] * m[2] points on the plane y = 0.
BasePlate(m) ==
    LatticeSeq(<<-3 * (m[1] - 1), 0, -3 * (m[2] - 1)>>, <<m[1], 1, m[2]>>, <<6, 1, 6>>)

\* A footprint of N = n[1] * n[2] * n[3] points whose lowest layer is at
\* height h above the base plate (the file stores y downwards).
Footprint(n, h) ==
    LatticeSeq(<<-3 * (n[1] - 1), -h - 14 * (n[2] - 1), -3 * (n[3] - 1)>>, n, <<6, 14, 6>>)

\* A row of points three apart along x, h each side of the origin, the
\* one at x = 3 replaced by a pair at z = 1 and z = -1.
RowWithPair(h) ==
    [k \in 1..(2 * h + 2) |->
        IF k = 2 * h + 2 THEN <<3, 0, -1>>
        ELSE <<3 * (k - h - 1), 0, IF k - h - 1 = 1 THEN 1 ELSE 0>>]

SmallFiles ==
    {PlyFile(<<<<1, 2, 3>>>>),
     PlyFile(<<<<0, 0, 0>>, <<4, 0, 0>>>>),
     PlyFile(<<<<0, 0, 0>>, <<5, 0, 0>>, <<10, 0, 0>>>>),
     PlyFile(<<<<-2, 0, -1>>, <<-2, 0, 1>>, <<2, 0, -1>>, <<2, 0, 1>>>>),
     FullPlyFile(LatticeSeq(<<-9, 0, -3>>, <<7, 1, 3>>, <<3, 1, 3>>)),
     PlyFile(LatticeSeq(<<-3, 0, -9>>, <<3, 1, 7>>, <<3, 1, 3>>)),
     PlyFile(LatticeSeq(<<-3, -9, 0>>, <<3, 7, 1>>, <<3, 3, 1>>)),
     PlyFile(RowWithPair(8)),
     PlyFile(RowWithPair(12)),
     TaggedPlyFile(RowWithPair(8)),
     [PlyFile(<<<<-2, 0, -1>>, <<-2, 0, 1>>, <<2, 0, -1>>, <<2, 0, 1>>>>)
         EXCEPT !.f_dc = [k \in 1..4 |-> <<20, 20, 20>>], !.has_f_dc = TRUE],
     TaggedPlyFile(LatticeSeq(<<-3, -9, 0>>, <<3, 7, 1>>, <<3, 3, 1>>))}

\* Scans of N footprint points over M base points.
ScanFiles ==
    {PlyFile(BasePlate(<<9, 6>>) \o Footprint(<<6, 2, 4>>, 17)),
     FullPlyFile(BasePlate(<<10, 5>>) \o Footprint(<<10, 1, 6>>, 17)),
     PlyFile(BasePlate(<<9, 6>>) \o Footprint(<<6, 2, 4>>, 6)),
     PlyFile(BasePlate(<<10, 5>>) \o Footprint(<<5, 1, 2>>, 17)),
     PlyFile(BasePlate(<<10, 10>>)),
     TaggedPlyFile(BasePlate(<<10, 5>>) \o Footprint(<<10, 1, 6>>, 17))}

Files == BrokenFiles \cup SmallFiles \cup ScanFiles

Init ==
    /\ pc = "load"
    /\ input \in Files
    /\ cloud = NoCloud
    /\ before = NoCloud
    /\ dims = NoDims
    /\ result = NoResult
    /\ emptied = Nil
    /\ plane = NoPlane
    /\ runs = 0
    /\ written = FALSE
    /\ env \in [scipy : BOOLEAN, u_based : BOOLEAN]
    /\ NoCalls
    /\ NotServing

Next ==
    \/ Load
    \/ FlipY
    \/ RemovePlanes
    \/ Align
    \/ RemoveNoise
    \/ CalculateFootDimensions
    \/ Save

Spec == Init /\ [][Next]_vars

(***************************************************************************)
(* align_to_principal_component applied repeatedly.  A cloud is a lattice  *)
(* in an orthogonal frame F of integer vectors, e[a] steps each way along  *)
(* F[a], around the point t.                                               *)
(***************************************************************************)
MaxRuns == 1

FramePoint(F, t, a, b, c) ==
    [j \in 1..3 |-> t[j] + a * F[1][j] + b * F[2][j] + c * F[3][j]]

FrameSeq(F, e, t) ==
    LET n == [a \in 1..3 |-> 2 * e[a] + 1]
    IN  [k \in 1..(n[1] * n[2] * n[3]) |->
            FramePoint(F, t, ((k - 1) % n[1]) - e[1],
                       (((k - 1) \div n[1]) % n[2]) - e[2],
                       ((k - 1) \div (n[1] * n[2])) - e[3])]

FrameCloud(F, e, t) ==
    [points  |-> AsArray(FrameSeq(F, e, t)),
     normals |-> [k \in DOMAIN FrameSeq(F, e, t) |-> F[1]],
     colors  |-> <<>>]

Frames ==
    {<<<<1, 0, 0>>, <<0, 1, 0>>, <<0, 0, 1>>>>,
     <<<<0, 0, 1>>, <<0, 1, 0>>, <<1, 0, 0>>>>,
     <<<<0, 1, 0>>, <<1, 0, 0>>, <<0, 0, 1>>>>,
     <<<<3, 0, 4>>, <<0, 1, 0>>, <<-4, 0, 3>>>>,
     <<<<4, 0, -3>>, <<0, 1, 0>>, <<3, 0, 4>>>>,
     <<<<-4, 0, 3>>, <<3, 5, 4>>, <<3, -5, 4>>>>,
     <<<<3, 5, 4>>, <<-4, 0, 3>>, <<3, -5, 4>>>>}

Extents == {<<2, 0, 1>>, <<2, 1, 1>>}

\* A cloud with no dominant direction: equal spread along x and z.
TiedCloud ==
    PlainCloud(<<<<125, 0, 0>>, <<-125, 0, 0>>, <<0, 0, 125>>, <<0, 0, -125>>, <<0, 0, 0>>>>)

AlignClouds ==
    {FrameCloud(F, e, <<0, 0, 0>>) : F \in Frames, e \in Extents}
    \cup {FrameCloud(F, <<2, 0, 1>>, <<5, 0, 10>>) : F \in Frames}
    \cup {TiedCloud, PlainCloud(<<>>), PlainCloud(<<<<0, 0, 0>>, <<3, 0, 4>>>>)}

InitAlign ==
    /\ pc = "align"
    /\ input \in AlignClouds
    /\ cloud = input
    /\ before = input
    /\ dims = NoDims
    /\ result = NoResult
    /\ emptied = Nil
    /\ plane = NoPlane
    /\ runs = 0
    /\ written = FALSE
    /\ env \in [scipy : {TRUE}, u_based : BOOLEAN]
    /\ NoCalls
    /\ NotServing

\* The caller aligns the aligned cloud again.
Realign ==
    /\ pc = "noise"
    /\ runs < MaxRuns
    /\ runs' = runs + 1
    /\ pc' = "align"
    /\ UNCHANGED <<input, cloud, before, dims, result, emptied, plane, written, env,
                 rng, drawn, peers, finished, web>>

NextAlign == Align \/ Realign

SpecAlign == InitAlign /\ [][NextAlign]_vars

(***************************************************************************)
(* remove_noise applied repeatedly.                                        *)
(***************************************************************************)
NoiseClouds ==
    {PlainCloud(AsArray(LatticeSeq(<<0, 0, 0>>, <<nx, 1, nz>>, <<s, 1, s>>))) :
        nx \in 3..8, nz \in 1..3, s \in {2, 3}}
    \cup {PlainCloud(AsArray(LatticeSeq(<<0, 0, 0>>, <<6, 1, 4>>, <<3, 1, 3>>))),
          PlainCloud(<<>>)}

InitDenoise ==
    /\ pc = "noise"
    /\ input \in NoiseClouds
    /\ cloud = input
    /\ before = input
    /\ dims = NoDims
    /\ result = NoResult
    /\ emptied = Nil
    /\ plane = NoPlane
    /\ runs = 0
    /\ written = FALSE
    /\ env \in [scipy : {TRUE}, u_based : {TRUE}]
    /\ NoCalls
    /\ NotServing

\* The caller denoises the denoised cloud again.
Renoise ==
    /\ pc = "calc"
    /\ runs < MaxRuns
    /\ runs' = runs + 1
    /\ pc' = "noise"
    /\ UNCHANGED <<input, cloud, before, dims, result, emptied, plane, written, env,
                 rng, drawn, peers, finished, web>>

NextDenoise == RemoveNoise \/ Renoise

SpecDenoise == InitDenoise /\ [][NextDenoise]_vars

(***************************************************************************)
(* process_ply_file called again in the same process, after it returned    *)
(* or from a second thread while the first call is inside it.  The cloud   *)
(* holder is per call; Open3D's random engine is per process.              *)
(***************************************************************************)
\* How many more calls are followed after the first.
MaxCalls == 2

\* The state of the running call.
Locals ==
    [pc |-> pc, input |-> input, cloud |-> cloud, before |-> before, dims |-> dims,
     result |-> result, emptied |-> emptied, plane |-> plane]

\* What is kept of a call that returned.
Summary == [input |-> input, plane |-> plane, cloud |-> cloud, dims |-> dims]

\* processor = PointCloudProcessor() at the start of a call on file: a new
\* cloud holder, and the engine of the process seeded.
Construct(file) ==
    /\ pc' = "load"
    /\ input' = file
    /\ cloud' = NoCloud
    /\ before' = NoCloud
    /\ dims' = NoDims
    /\ result' = NoResult
    /\ emptied' = Nil
    /\ plane' = NoPlane
    /\ rng' = SeedEngine(rng)

\* A scan whose base plate (50 points) and footprint layer (60 points) are
\* both planes segment_plane can return, and a file too small to fit.
RepeatFiles ==
    {PlyFile(BasePlate(<<10, 5>>) \o Footprint(<<10, 1, 6>>, 17)),
     PlyFile(<<<<-2, 0, -1>>, <<-2, 0, 1>>, <<2, 0, -1>>, <<2, 0, 1>>>>)}

InitRepeat ==
    /\ pc = "load"
    /\ input \in RepeatFiles
    /\ cloud = NoCloud
    /\ before = NoCloud
    /\ dims = NoDims
    /\ result = NoResult
    /\ emptied = Nil
    /\ plane = NoPlane
    /\ runs = 0
    /\ written = FALSE
    /\ env \in [scipy : {TRUE}, u_based : {TRUE}]
    /\ NoCalls
    /\ NotServing

\* The caller calls process_ply_file again once it has returned.
Invoke ==
    /\ pc = "done"
    /\ runs < MaxCalls
    /\ \E file \in RepeatFiles : Construct(file)
    /\ finished' = finished \cup {Summary}
    /\ runs' = runs + 1
    /\ UNCHANGED <<written, env, drawn, peers, web>>

NextRepeat == Next \/ Invoke

SpecRepeat == InitRepeat /\ [][NextRepeat]_vars

\* A second thread calls process_ply_file while the running call is
\* between two stages; the running call is suspended.
Spawn ==
    /\ pc # "done"
    /\ runs < MaxCalls
    /\ \E file \in RepeatFiles : Construct(file)
    /\ peers' = Append(peers, Locals)
    /\ runs' = runs + 1
    /\ UNCHANGED <<written, env, drawn, finished, web>>

\* The interpreter switches threads between two stages.
Switch ==
    /\ \E i \in DOMAIN peers :
          /\ pc' = peers[i].pc
          /\ input' = peers[i].input
          /\ cloud' = peers[i].cloud
          /\ before' = peers[i].before
          /\ dims' = peers[i].dims
          /\ result' = peers[i].result
          /\ emptied' = peers[i].emptied
          /\ plane' = peers[i].plane
          /\ peers' = [peers EXCEPT ![i] = Locals]
    /\ UNCHANGED <<runs, written, env, rng, drawn, finished, web>>

\* Two calls followed up to the end of plane removal.
NextThreads == Load \/ FlipY \/ RemovePlanes \/ Spawn \/ Switch

SpecThreads == InitRepeat /\ [][NextThreads]_vars

(***************************************************************************)
(* The dimension calculator applied to small clouds.                       *)
(***************************************************************************)
MaxPts == 3

MaxBox == 3

\* Abscissae that share slices and windows (the range 200 makes a slice 4
\* wide), and (y, z) positions with an interior and a collinear point.
GridYZ == {<<0, 0>>, <<3, 0>>, <<0, 3>>, <<1, 1>>, <<2, 2>>}

GridPts == {<<x, yz[1], yz[2]>> : x \in {0, 3, 4, 200}, yz \in GridYZ \ {<<2, 2>>}}

PointLess(p, q) ==
    \/ p[1] < q[1]
    \/ p[1] = q[1] /\ p[2] < q[2]
    \/ p[1] = q[1] /\ p[2] = q[2] /\ p[3] < q[3]

RECURSIVE SetToSeq(_)
SetToSeq(S) ==
    IF S = {} THEN <<>>
    ELSE LET m == CHOOSE p \in S : \A q \in S \ {p} : PointLess(p, q)
         IN  <<m>> \o SetToSeq(S \ {m})

\* The 8 corners of the axis-aligned box at x0 of length L, height 1, width W.
BoxCloud(x0, L, W) ==
    PlainCloud(SetToSeq({<<x, y, z>> : x \in {x0, x0 + L}, y \in {0, 1}, z \in {-1, W - 1}}))

\* 12 points on the circle of radius 5 * m around the x axis, at abscissa x.
RingPts(x, m) ==
    {<<x, m * a, m * b>> : a \in {-5, 5}, b \in {0}}
    \cup {<<x, m * a, m * b>> : a \in {0}, b \in {-5, 5}}
    \cup {<<x, m * a, m * b>> : a \in {-3, 3}, b \in {-4, 4}}
    \cup {<<x, m * a, m * b>> : a \in {-4, 4}, b \in {-3, 3}}

\* A cylinder of radius 5 * m: three rings along x.
CylinderCloud(m) == PlainCloud(SetToSeq(RingPts(0, m) \cup RingPts(1, m) \cup RingPts(2, m)))

\* The subsets of S with at most k elements.
RECURSIVE UpTo(_, _)
UpTo(S, k) ==
    IF k = 0 \/ S = {} THEN {{}}
    ELSE LET p == CHOOSE q \in S : TRUE
         IN  UpTo(S \ {p}, k) \cup {T \cup {p} : T \in UpTo(S \ {p}, k - 1)}

\* A cross-section T at x = 5 (slice 1 of 50) and one point a at x = 3 (in
\* slice 0, and in the window around slice 1), between two end points.
SectionCloud(T, a) ==
    PlainCloud(SetToSeq({<<0, 0, 0>>, <<200, 0, 0>>, <<3, a[1], a[2]>>}
                        \cup {<<5, yz[1], yz[2]>> : yz \in T}))

\* The cloud c with a normal and a colour per point, the colour of the
\* first point being the highlight colour already.
Tinted(c) ==
    [c EXCEPT !.normals = [k \in DOMAIN c.points |-> <<0, k, 1>>],
              !.colors = [k \in DOMAIN c.points |->
                             IF k = 1 THEN Red ELSE <<k % (ColorOne + 1), 5, 7>>]]

MeasureClouds ==
    {PlainCloud(SetToSeq(S)) : S \in UpTo(GridPts, MaxPts)}
    \cup {BoxCloud(x0, L, W) : x0 \in {-1, 0}, L \in 1..MaxBox, W \in 1..MaxBox}
    \cup {CylinderCloud(m) : m \in {1, 2}}
    \cup {SectionCloud(T, a) : T \in {U \in SUBSET GridYZ : Cardinality(U) >= 2},
                                a \in GridYZ}
    \cup {Tinted(SectionCloud(T, a)) : T \in {U \in SUBSET GridYZ : Cardinality(U) >= 3},
                                        a \in {<<0, 0>>, <<1, 1>>}}

InitMeasure ==
    /\ pc = "calc"
    /\ input \in MeasureClouds
    /\ cloud = input
    /\ before = input
    /\ dims = NoDims
    /\ result = NoResult
    /\ emptied = Nil
    /\ plane = NoPlane
    /\ runs = 0
    /\ written = FALSE
    /\ env \in [scipy : BOOLEAN, u_based : {TRUE}]
    /\ NoCalls
    /\ NotServing

NextMeasure == CalculateFootDimensions

SpecMeasure == InitMeasure /\ [][NextMeasure]_vars

(***************************************************************************)
(* C1: calculate_foot_dimensions returns foot_length = max(x) - min(x) and *)
(* foot_width = max(z) - min(z) over the points of the cloud, both         *)
(* non-negative, and exactly L and W on the 8 corners of an L x W box.     *)
(***************************************************************************)
IsSpread(v, S) ==
    /\ \A a, b \in S : a - b <= v
    /\ \E a, b \in S : a - b = v

C1_FootDimensions ==
    dims.foot_length # None =>
        /\ IsSpread(dims.foot_length[1], Xs(cloud.points))
        /\ IsSpread(dims.foot_width[1], Zs(cloud.points))
        /\ dims.foot_length[1] >= 0 /\ dims.foot_width[1] >= 0
        /\ \A x0 \in {-1, 0}, L, W \in 1..MaxBox :
              input = BoxCloud(x0, L, W) =>
                  dims.foot_length = Some(L) /\ dims.foot_width = Some(W)

C1_Witness ==
    /\ pc = "save"
    /\ input = BoxCloud(-1, 2, 3)
    /\ dims.foot_length = Some(2) /\ dims.foot_width = Some(3)

(***************************************************************************)
(* C2: when the hull path is taken (at least 3 window points, the hull     *)
(* computed), the circumference is the perimeter of the convex hull of the *)
(* (y, z) projections of the window points, closing edge included; on a    *)
(* circular cross-section of radius r it is within 2 % of 2 * pi * r.      *)
(***************************************************************************)
\* The directed boundary edges of the convex hull of S: every other point
\* lies strictly to the left, or on the segment between the two ends.
HullEdges(S) ==
    {e \in S \X S :
        /\ e[1] # e[2]
        /\ \A r \in S :
              \/ Cross(e[1], e[2], r) > 0
              \/ /\ Cross(e[1], e[2], r) = 0
                 /\ LET dot == (r[1] - e[1][1]) * (e[2][1] - e[1][1])
                               + (r[2] - e[1][2]) * (e[2][2] - e[1][2])
                        len == (e[2][1] - e[1][1]) * (e[2][1] - e[1][1])
                               + (e[2][2] - e[1][2]) * (e[2][2] - e[1][2])
                    IN  0 <= dot /\ dot <= len}

RECURSIVE EdgeLengths(_)
EdgeLengths(E) ==
    IF E = {} THEN 0
    ELSE LET e == CHOOSE f \in E : TRUE
         IN  Norm2(e[2][1] - e[1][1], e[2][2] - e[1][2]) + EdgeLengths(E \ {e})

WindowYZ == {<<cloud.points[k][2], cloud.points[k][3]>> : k \in dims.window}

\* 2 * pi * 1000, rounded.
TwoPiMilli == 6283

C2_HullPerimeter ==
    /\ dims.path = "hull" =>
          /\ Cardinality(dims.window) >= 3
          /\ dims.circumference = Some(EdgeLengths(HullEdges(WindowYZ)))
    /\ \A m \in {1, 2} :
          (input = CylinderCloud(m) /\ dims.path = "hull") =>
              50 * Abs(10 * dims.circumference[1] - TwoPiMilli * 5 * m) <= TwoPiMilli * 5 * m

C2_Witness ==
    /\ dims.path = "hull"
    /\ Cardinality(dims.window) >= 4
    /\ Cardinality(HullEdges(WindowYZ)) = 3
    /\ dims.circumference[1] > 0

(***************************************************************************)
(* C3: the slice the cross-section is centred on has a z-spread at least   *)
(* that of every other of the 50 slices, and the window is symmetric about *)
(* the midpoint of that slice (3/4 of a slice width on each side).         *)
(***************************************************************************)
SpreadOf(P, j) ==
    LET xmin == MinOf(Xs(P))
        I    == SliceIdx(P, j, xmin, MaxOf(Xs(P)) - xmin)
    IN  IF I = {} THEN -1 ELSE ZRange(P, I)

C3_WidestSlice ==
    dims.path # Nil =>
        LET P    == cloud.points
            xmin == MinOf(Xs(P))
            xr   == MaxOf(Xs(P)) - xmin
        IN  /\ dims.best = -1 => \A j \in 0..(NumSlices - 1) : SpreadOf(P, j) <= 0
            /\ dims.best # -1 =>
                  /\ dims.best \in 0..(NumSlices - 1)
                  /\ \A j \in 0..(NumSlices - 1) : SpreadOf(P, j) <= SpreadOf(P, dims.best)
                  /\ dims.window =
                        {k \in DOMAIN P :
                            Abs(200 * (P[k][1] - xmin) - (4 * dims.best + 2) * xr) <= 3 * xr}

C3_Witness ==
    /\ dims.path # Nil
    /\ dims.best > 0
    /\ \E j \in 0..(dims.best - 1) :
          /\ SpreadOf(cloud.points, j) > 0
          /\ SpreadOf(cloud.points, j) < SpreadOf(cloud.points, dims.best)
    /\ \E k \in dims.window : SliceIdx(cloud.points, dims.best, MinOf(Xs(cloud.points)),
                                       MaxOf(Xs(cloud.points)) - MinOf(Xs(cloud.points)))
                              # dims.window

(***************************************************************************)
(* C4: when fewer than 3 points of the measured cloud fall in the          *)
(* cross-section window, calculate_foot_dimensions returns circumference   *)
(* 0 with the length and the width of the cloud, no failure is recorded    *)
(* and the run is at the save stage; a run that then saves returns these   *)
(* values.                                                                 *)
(***************************************************************************)
FewInWindow(P) ==
    /\ BestSlice(P) # -1
    /\ Cardinality(CrossSection(P, BestSlice(P))) < CrossSectionMin

C4_FewPointsZero ==
    /\ (pc = "save" /\ FewInWindow(cloud.points)) =>
          /\ dims.circumference = Some(0)
          /\ dims.foot_length = Some(FootLength(cloud.points))
          /\ dims.foot_width = Some(FootWidth(cloud.points))
          /\ result = NoResult
    /\ (pc = "done" /\ dims.path # Nil /\ FewInWindow(cloud.points) /\ result.success) =>
          /\ result.circumference = Some(0)
          /\ result.foot_length = Some(FootLength(cloud.points))
          /\ result.foot_width = Some(FootWidth(cloud.points))

C4_Witness ==
    /\ pc = "done"
    /\ result.success
    /\ dims.path = "few_points"
    /\ Cardinality(dims.window) = 2
    /\ result.foot_length[1] > 0

(***************************************************************************)
(* C5, as amended: for a cloud of at least 100 points made of N footprint  *)
(* points and M >= 50 base points on the plane y = 0, when the inliers     *)
(* segment_plane returns are exactly the base points, remove_planes leaves *)
(* the N footprint points, in their order, with their normals and colours, *)
(* and none of the base points.                                            *)
(***************************************************************************)
BaseIdx(P) == {k \in DOMAIN P : P[k][2] = 0}

FootIdx(P) == DOMAIN P \ BaseIdx(P)

FootprintLeft ==
    /\ cloud.points = SelectIdx(before.points, FootIdx(before.points), 1)
    /\ cloud.normals = SelectAttr(before.normals, FootIdx(before.points))
    /\ cloud.colors = SelectAttr(before.colors, FootIdx(before.points))

C5_BaseRemoved ==
    (/\ pc = "align"
     /\ plane.outcome # Nil
     /\ Cardinality(BaseIdx(before.points)) >= MinInliers
     /\ Len(before.points) >= MinCloudSize
     /\ plane.inliers = BaseIdx(before.points)) => FootprintLeft

C5_Witness ==
    /\ pc = "align"
    /\ plane.outcome = "removed"
    /\ plane.inliers = BaseIdx(before.points)
    /\ Len(cloud.points) >= MinInliers - 2
    /\ Len(cloud.points) < Len(before.points)
    /\ cloud.normals # <<>>

\* C5 as stated: for every N and every M >= 50 the base is removed and the
\* footprint kept.
C5_EveryCloud ==
    (/\ pc = "align"
     /\ plane.outcome # Nil
     /\ Cardinality(BaseIdx(before.points)) >= MinInliers) => FootprintLeft

(***************************************************************************)
(* C6, as amended: when remove_planes skips (fewer than 100 points, or a   *)
(* best plane of fewer than 50 inliers) the cloud is unchanged, no failure *)
(* is recorded and the run is at the alignment stage; the run goes on to   *)
(* measure the cloud when the cloud has at least 3 points and the denoiser *)
(* leaves it non-empty.                                                    *)
(***************************************************************************)
Skipped == plane.outcome \in {"too_small", "low_support"}

NonDegenerate(P) ==
    /\ Len(P) >= MinSamples
    /\ Dominant(P)
    /\ PrincipalComponents(P, env.u_based) # {}
    /\ \A v \in PrincipalComponents(P, env.u_based) : ProjectionValid(v)

IsIdentity(r) == r[2] = 0 /\ r[1] = r[3]

C7_AlignedToX ==
    (pc = "noise" /\ NonDegenerate(before.points)) =>
        /\ PrincipalComponents(cloud.points, env.u_based) # {}
        /\ \A v \in PrincipalComponents(cloud.points, env.u_based) :
              /\ ProjectionValid(v)
              /\ v[1] > 0 /\ v[3] = 0
              /\ IsIdentity(Rotation(v))
              /\ AlignOn(cloud, v).cloud = cloud
        /\ runs >= 1 => cloud.points = before.points

C7_Witness ==
    /\ pc = "noise"
    /\ runs = 1
    /\ NonDegenerate(input.points)
    /\ \A k \in DOMAIN input.points : input.points[k][3] # 0 => cloud.points[k] # input.points[k]
    /\ \E k \in DOMAIN input.points : input.points[k][3] # 0
    /\ cloud.points = before.points

(***************************************************************************)
(* C8: remove_noise applied to a cloud that remove_noise produced removes  *)
(* no further point.                                                       *)
(***************************************************************************)
C8_Idempotent == (pc = "calc" /\ runs >= 1) => cloud = before

(***************************************************************************)
(* C9: when the statistical or the radius filter of remove_noise leaves    *)
(* zero points, the run ends with success = False and an error, no numeric *)
(* measurement, no output file named and none written.                     *)
(***************************************************************************)
C9_EmptyCloudFails ==
    (pc = "done" /\ emptied \in {"statistical", "radius"}) =>
        /\ result.success = FALSE
        /\ result.error[1] = "processing error"
        /\ result.foot_length = None
        /\ result.foot_width = None
        /\ result.circumference = None
        /\ result.output_file = Nil
        /\ ~written

C9_Witness ==
    /\ pc = "done"
    /\ emptied = "statistical"
    /\ cloud.points = <<>>
    /\ input.points # <<>>
    /\ result.success = FALSE

(***************************************************************************)
(* C10: when plane removal, the statistical filter or the radius filter    *)
(* empties the cloud, the failure reported names that stage.               *)
(***************************************************************************)
Stages == {"planes", "statistical", "radius"}

\* The stage an error names: the exception texts of numpy and scikit-learn
\* that reach the handler name none.
StageNamed(error) == IF error[2] \in Stages THEN error[2] ELSE Nil

C10_StageReported ==
    (pc = "done" /\ emptied \in Stages) =>
        (result.success = FALSE /\ StageNamed(result.error) = emptied)

(***************************************************************************)
(* C11: whenever the write stage fails after the measurements were         *)
(* computed, whether write_point_cloud returned False, raised, or the      *)
(* output directory could not be created, the result carries the computed  *)
(* foot_length, foot_width and circumference, with output_file None.       *)
(***************************************************************************)
WriteFailed == pc = "done" /\ dims.path # Nil /\ result.success = FALSE

C11_MeasurementsKept ==
    WriteFailed =>
        /\ result.foot_length = dims.foot_length
        /\ result.foot_width = dims.foot_width
        /\ result.circumference = dims.circumference
        /\ result.output_file = Nil

(***************************************************************************)
(* C12: when the file cannot be parsed, has no vertex element or holds     *)
(* zero points, process_ply_file returns success = False with an error,    *)
(* None for every measurement and point_count 0, and no later stage has    *)
(* run: the cloud was never flipped, fitted, aligned, denoised, measured   *)
(* or saved.                                                               *)
(***************************************************************************)
LoadFails(file) == file.kind # "ply" \/ file.points = <<>>

C12_LoadFailure ==
    (pc # "load" /\ LoadFails(input)) =>
        /\ pc = "done"
        /\ result.success = FALSE
        /\ result.error[1] # Nil
        /\ result.foot_length = None
        /\ result.foot_width = None
        /\ result.circumference = None
        /\ result.output_file = Nil
        /\ result.point_count = 0
        /\ cloud = NoCloud /\ before = NoCloud
        /\ plane = NoPlane /\ rng = Seeded /\ drawn = {}
        /\ dims = NoDims /\ emptied = Nil
        /\ ~written

C12_Witness ==
    /\ pc = "done"
    /\ input.kind = "ply"
    /\ input.points = <<>>
    /\ ~input.has_f_dc
    /\ result.error[1] = "load failed"

(***************************************************************************)
(* C13: the random engine is in its seeded state at the start of plane     *)
(* fitting in every call, and any two calls of process_ply_file on the     *)
(* same file, whatever calls ran before them in the process, give the same *)
(* plane inliers, the same aligned cloud (so the same rotation) and the    *)
(* same measurements.                                                      *)
(***************************************************************************)
Agree(f, g) ==
    f.input = g.input => (f.plane = g.plane /\ f.cloud = g.cloud /\ f.dims = g.dims)

C13_Reproducible ==
    /\ pc = "planes" => rng = Seeded
    /\ \A f \in finished : \A g \in finished : Agree(f, g)
    /\ pc \notin {"load", "flip", "planes"} =>
          \A f \in finished : f.input = input => f.plane = plane
    /\ pc = "done" => \A f \in finished : Agree(f, Summary)

C13_Witness ==
    /\ pc = "done"
    /\ runs >= 1
    /\ plane.outcome = "removed"
    /\ dims.path # Nil
    /\ Cardinality(drawn) = 1
    /\ \E f \in finished : f.input = input /\ f.plane.outcome = "removed"
    /\ \E f \in finished : f.input # input

(***************************************************************************)
(* C14: two calls of process_ply_file running in two threads share no      *)
(* mutable state, so under every interleaving each gives the result it     *)
(* gives alone: two calls on the same file that are past plane removal     *)
(* have removed the same plane.                                            *)
(***************************************************************************)
PastPlanes(l) == l.pc \notin {"load", "flip", "planes"}

C14_Isolated ==
    \A i \in DOMAIN peers :
        (PastPlanes(Locals) /\ PastPlanes(peers[i]) /\ peers[i].input = input)
            => peers[i].plane = plane

(***************************************************************************)
(* C15: after every stage each attribute that is present (normals,         *)
(* colours) has as many entries as there are points, and every point that  *)
(* survives remove_planes or remove_noise keeps the normal and the colour  *)
(* it had before the stage, the survivors in their order.  The points of   *)
(* a cloud being distinct, a survivor is found in the cloud before the     *)
(* stage by its position.                                                  *)
(***************************************************************************)
LockStep(c) ==
    /\ Len(c.normals) \in {0, Len(c.points)}
    /\ Len(c.colors) \in {0, Len(c.points)}

Distinct(P) == \A j \in DOMAIN P : \A k \in DOMAIN P : P[j] = P[k] => j = k

Origin(b, c, k) == CHOOSE j \in DOMAIN b.points : b.points[j] = c.points[k]

KeptFrom(b, c) ==
    /\ \A k \in DOMAIN c.points : \E j \in DOMAIN b.points : b.points[j] = c.points[k]
    /\ \A k \in DOMAIN c.points :
          /\ b.normals # <<>> => (c.normals # <<>> /\ c.normals[k] = b.normals[Origin(b, c, k)])
          /\ b.colors # <<>> => (c.colors # <<>> /\ c.colors[k] = b.colors[Origin(b, c, k)])
          /\ k > 1 => Origin(b, c, k - 1) < Origin(b, c, k)
    /\ b.normals = <<>> => c.normals = <<>>
    /\ b.colors = <<>> => c.colors = <<>>

C15_LockStep ==
    /\ LockStep(cloud)
    /\ (pc \in {"align", "calc"} /\ Distinct(before.points)) => KeptFrom(before, cloud)

C15_Witness ==
    /\ pc = "calc"
    /\ Distinct(before.points)
    /\ cloud.points # <<>>
    /\ Len(cloud.points) < Len(before.points)
    /\ Len(cloud.normals) = Len(cloud.points)
    /\ Len(cloud.colors) = Len(cloud.points)
    /\ \E k \in DOMAIN cloud.points : cloud.colors[k] # cloud.colors[1]
    /\ plane.outcome = "removed"

(***************************************************************************)
(* C16: in a run whose load succeeds the stages run in the order axis      *)
(* flip, plane removal, alignment, denoising, dimension calculation, save. *)
(* Every step moves the run forward, so no stage runs twice; the step      *)
(* after the axis flip is plane removal and the step after plane removal   *)
(* leaves the run at alignment, so plane removal runs once and is over     *)
(* before alignment starts.                                                *)
(***************************************************************************)
StageOrder == <<"load", "flip", "planes", "align", "noise", "calc", "save", "done">>

Rank(p) == CHOOSE i \in DOMAIN StageOrder : StageOrder[i] = p

StepInOrder ==
    /\ Rank(pc') > Rank(pc)
    /\ pc' # "done" => Rank(pc') = Rank(pc) + 1
    /\ pc = "flip" => pc' = "planes"
    /\ pc = "planes" => (pc' = "align" /\ plane'.outcome # Nil)
    /\ pc # "planes" => plane' = plane
    /\ pc = "load" => plane = NoPlane

C16_StagesInOrder == [][StepInOrder]_vars

C16_Witness ==
    /\ pc = "done"
    /\ result.success = TRUE
    /\ plane.outcome = "removed"
    /\ written

(***************************************************************************)
(* C17, as amended: after a circumference was computed from a              *)
(* cross-section (by the hull or by the sector fallback) the points of the *)
(* cross-section window have the highlight colour (1, 0, 0), every other   *)
(* point has the colour it had before, which can itself be (1, 0, 0), or   *)
(* the default 0.7 grey when the cloud had no colours, and no position and *)
(* no normal has changed.                                                  *)
(***************************************************************************)
Highlighted == pc = "save" /\ dims.path \in {"hull", "simple"}

ColorsBefore ==
    IF before.colors = <<>> THEN [k \in DOMAIN before.points |-> Grey] ELSE before.colors

C17_HighlightFrame ==
    Highlighted =>
        /\ cloud.points = before.points
        /\ cloud.normals = before.normals
        /\ DOMAIN cloud.colors = DOMAIN cloud.points
        /\ dims.window = CrossSection(before.points, BestSlice(before.points))
        /\ \A k \in DOMAIN cloud.points :
              cloud.colors[k] = IF k \in dims.window THEN Red ELSE ColorsBefore[k]

C17_Witness ==
    /\ Highlighted
    /\ before.colors # <<>>
    /\ before.normals # <<>>
    /\ \E k \in dims.window : before.colors[k] # Red /\ cloud.colors[k] = Red
    /\ \E k \in DOMAIN cloud.points \ dims.window : cloud.colors[k] \notin {Red, Grey}

\* C17 as stated: exactly the points of the window carry the highlight
\* colour.
C17_ExactlyWindow ==
    Highlighted => \A k \in DOMAIN cloud.points : (cloud.colors[k] = Red) <=> (k \in dims.window)

(***************************************************************************)
(* C18: align_to_principal_component keeps the number and the order of     *)
(* the points, the y coordinate of every point and every colour (a point   *)
(* stays at its distance from the y axis); when the principal direction    *)
(* has no valid projection on the (x, z) plane it leaves the positions and *)
(* the normals as they are too, and the run goes on without a failure.     *)
(***************************************************************************)
Vertical(P) ==
    /\ PrincipalComponents(P, env.u_based) # {}
    /\ \A v \in PrincipalComponents(P, env.u_based) : ~ProjectionValid(v)

C18_AlignFrame ==
    pc = "noise" =>
        /\ result = NoResult
        /\ DOMAIN cloud.points = DOMAIN before.points
        /\ DOMAIN cloud.normals = DOMAIN before.normals
        /\ cloud.colors = before.colors
        /\ \A k \in DOMAIN cloud.points :
              /\ cloud.points[k][2] = before.points[k][2]
              /\ cloud.points[k][1] * cloud.points[k][1] + cloud.points[k][3] * cloud.points[k][3]
                 = before.points[k][1] * before.points[k][1]
                   + before.points[k][3] * before.points[k][3]
        /\ Vertical(before.points) => cloud = before

C18_Witness ==
    /\ pc = "noise"
    /\ Vertical(before.points)
    /\ before.normals # <<>>
    /\ before.colors # <<>>
    /\ cloud = before
    /\ result = NoResult

(***************************************************************************)
(* C19: after load_ply_file on a file with the three colour channels every *)
(* colour component is in [0, 1]: the values are kept when all are in      *)
(* [0, 1] already, and else every value v becomes (v - m) / (M - m), m and *)
(* M being the minimum and the maximum over the three channels together.   *)
(***************************************************************************)
Channels(f_dc) == UNION {{f_dc[k][1], f_dc[k][2], f_dc[k][3]} : k \in DOMAIN f_dc}

C19_ColorsInRange ==
    (pc = "flip" /\ input.has_f_dc) =>
        LET m == MinOf(Channels(input.f_dc))
            M == MaxOf(Channels(input.f_dc))
        IN  /\ DOMAIN cloud.colors = DOMAIN input.f_dc
            /\ \A k \in DOMAIN cloud.colors : \A j \in 1..3 :
                  cloud.colors[k][j] \in 0..ColorOne
            /\ (m >= 0 /\ M <= ColorOne) => cloud.colors = input.f_dc
            /\ ~(m >= 0 /\ M <= ColorOne) =>
                  \A k \in DOMAIN cloud.colors : \A j \in 1..3 :
                     /\ cloud.colors[k][j] * (M - m) <= (input.f_dc[k][j] - m) * ColorOne
                     /\ (cloud.colors[k][j] + 1) * (M - m) > (input.f_dc[k][j] - m) * ColorOne

(***************************************************************************)
(* C20: process_ply_file is total.  Whatever the file and whatever a stage *)
(* does, a run that has not returned can take its next step, and a run     *)
(* that has returned has returned a record; a record with success = True   *)
(* names the output file, holds three numbers, and its point_count is the  *)
(* number of points of the final cloud, at least 1 and at most the number  *)
(* of points loaded.                                                       *)
(***************************************************************************)
IsNumber(v) == v # None /\ Len(v) = 1 /\ v[1] \in Int /\ v[1] >= 0

\* The case analysis of the stage the run is at covers the state it is in.
CanStep ==
    /\ pc \in {"load", "flip", "planes", "align", "noise", "calc", "save", "done"}
    /\ pc = "load" => input.kind \in {"unparsable", "no_vertex", "ply"}
    /\ (pc = "planes" /\ Len(cloud.points) >= MinCloudSize) =>
          Fitted(cloud.points, rng, drawn) # {}
    /\ (pc = "align" /\ Len(cloud.points) >= MinSamples) =>
          PrincipalComponents(cloud.points, env.u_based) # {}

C20_Total ==
    /\ CanStep
    /\ pc = "done" =>
          /\ result.success \in BOOLEAN
          /\ {"success", "foot_length", "foot_width", "circumference", "output_file",
              "point_count"} \subseteq DOMAIN result
    /\ (pc = "done" /\ result.success = TRUE) =>
          /\ result.output_file # Nil
          /\ written
          /\ IsNumber(result.foot_length)
          /\ IsNumber(result.foot_width)
          /\ IsNumber(result.circumference)
          /\ result.point_count = Len(cloud.points)
          /\ result.point_count >= 1
          /\ result.point_count <= Len(input.points)

C20_Witness ==
    /\ pc = "done"
    /\ result.success = TRUE
    /\ result.point_count > 1
    /\ result.point_count < Len(input.points)
    /\ result.circumference[1] > 0

(***************************************************************************)
(* FootAnalysisDescriptor of analysis_descriptor.py.  A text is a string   *)
(* in which every character outside printable ASCII (a Japanese character, *)
(* a line break) is written "_", so that a text keeps its length and its   *)
(* ASCII characters.  A measurement is a number of tenths: the callers in  *)
(* api.py pass numbers, on which nothing in the try block of               *)
(* analyze_foot_measurements raises past the inner handler.                *)
(***************************************************************************)
RECURSIVE JP(_)
\* A run of n characters outside printable ASCII.
JP(n) == IF n = 0 THEN "" ELSE "_" \o JP(n - 1)

\* pat in text
Contains(text, pat) ==
    \E i \in 1..(Len(text) - Len(pat) + 1) : SubSeq(text, i, i + Len(pat) - 1) = pat

\* f"{x:.1f}" of x tenths, x >= 0
Format1(x) == ToString(x \div 10) \o "." \o ToString(x % 10)

\* _get_dummy_description: the five texts of the local template, from the
\* measurements in tenths.
DummyDescription(measurements) ==
    LET Get(key) == IF key \in DOMAIN measurements THEN measurements[key] ELSE 0
        \* a / b * 100 if b > 0 else 0, in tenths, rounded to the nearest
        Ratio(a, b) == IF b > 0 THEN (2000 * a + b) \div (2 * b) ELSE 0
        \* (a / b * 100 if b > 0 else 0) > t
        RatioAbove(a, b, t) == b > 0 /\ 100 * a > t * b
        foot_length == Get("foot_length")
        foot_width == Get("foot_width")
        circumference == Get("circumference")
        dorsum_height == Get("dorsum_height_50")
        ahi == Get("ahi")
        large == foot_length > 270
        medium == foot_length > 240
        size_category ==
            IF large THEN JP(3)
            ELSE IF medium THEN JP(3)
            ELSE JP(3)
        shoe_size ==
            IF large THEN "27.5cm" \o JP(2)
            ELSE IF medium THEN Format1(foot_length + 10) \o "cm" \o JP(2)
            ELSE Format1(foot_length + 5) \o "cm" \o JP(2)
        size_advice ==
            IF large THEN JP(2) \o Format1(foot_length) \o "cm" \o JP(13) \o shoe_size
                \o JP(13) \o "1-1.5cm" \o JP(16)
            ELSE IF medium THEN JP(2) \o Format1(foot_length) \o "cm" \o JP(13) \o shoe_size
                \o JP(8)
            ELSE JP(2) \o Format1(foot_length) \o "cm" \o JP(13) \o shoe_size
                \o JP(24)
        width_ratio == Ratio(foot_width, foot_length)
        wide == RatioAbove(foot_width, foot_length, 42)
        regular == RatioAbove(foot_width, foot_length, 38)
        width_category ==
            IF wide THEN JP(2)
            ELSE IF regular THEN JP(2)
            ELSE JP(2)
        width_advice ==
            IF wide THEN JP(2) \o Format1(foot_width) \o "cm" \o JP(4)
                \o Format1(width_ratio) \o "%" \o JP(7) \o "3E" \o JP(1) \o "4E"
                \o JP(38)
            ELSE IF regular THEN JP(2) \o Format1(foot_width) \o "cm" \o JP(4)
                \o Format1(width_ratio) \o "%" \o JP(8) \o "E" \o JP(1) \o "2E"
                \o JP(13)
            ELSE JP(2) \o Format1(foot_width) \o "cm" \o JP(4)
                \o Format1(width_ratio) \o "%" \o JP(7) \o "D" \o JP(1) \o "E"
                \o JP(30)
        height_ratio == Ratio(dorsum_height, foot_length)
        high == RatioAbove(dorsum_height, foot_length, 28)
        middle == RatioAbove(dorsum_height, foot_length, 25)
        height_analysis ==
            IF high THEN JP(2) \o Format1(dorsum_height) \o "cm" \o JP(4)
                \o Format1(height_ratio) \o "%" \o JP(35)
            ELSE IF middle THEN JP(2) \o Format1(dorsum_height) \o "cm" \o JP(4)
                \o Format1(height_ratio) \o "%" \o JP(22)
            ELSE JP(2) \o Format1(dorsum_height) \o "cm" \o JP(4)
                \o Format1(height_ratio) \o "%" \o JP(35)
        height_first ==
            IF high THEN JP(2) \o Format1(dorsum_height) \o "cm" \o JP(4)
                \o Format1(height_ratio) \o "%" \o JP(6)
            ELSE IF middle THEN JP(2) \o Format1(dorsum_height) \o "cm" \o JP(4)
                \o Format1(height_ratio) \o "%" \o JP(7)
            ELSE JP(2) \o Format1(dorsum_height) \o "cm" \o JP(4)
                \o Format1(height_ratio) \o "%" \o JP(6)
        ahi_analysis ==
            IF ahi > 3000 THEN "AHI" \o JP(2) \o Format1(ahi) \o JP(17)
            ELSE IF ahi > 2500 THEN "AHI" \o JP(2) \o Format1(ahi) \o JP(18)
            ELSE "AHI" \o JP(2) \o Format1(ahi) \o JP(17)
        health_advice ==
            IF ahi > 3000 THEN JP(44)
            ELSE IF ahi > 2500 THEN JP(29)
            ELSE JP(35)
    IN  [overview |->
            JP(2) \o Format1(foot_length) \o "cm" \o JP(3)
            \o Format1(foot_width) \o "cm" \o JP(1) \o size_category \o JP(6)
            \o width_category \o JP(2) \o height_first \o JP(17),
         shape_features |->
            ahi_analysis \o " " \o JP(11) \o Format1(width_ratio) \o "%"
            \o JP(6) \o Format1(height_ratio) \o "%" \o JP(3),
         shoe_advice |->
            size_advice \o " " \o width_advice \o " " \o JP(39),
         health_notes |->
            health_advice \o " " \o JP(58),
         full_description |->
            JP(14) \o " " \o JP(9) \o ": " \o Format1(foot_length) \o "cm ("
            \o size_category \o ")" \o JP(3) \o ": " \o Format1(foot_width)
            \o "cm (" \o width_category \o JP(4) \o Format1(width_ratio) \o "%)"
            \o JP(3) \o ": " \o Format1(circumference) \o "cm" \o JP(3) \o ": "
            \o Format1(dorsum_height) \o "cm (" \o JP(3) \o Format1(height_ratio)
            \o "%)" \o JP(1) \o "AHI" \o JP(2) \o ": " \o Format1(ahi) \o JP(3)
            \o " " \o JP(6) \o ahi_analysis \o JP(1) \o height_analysis \o JP(3)
            \o " " \o JP(15) \o size_advice \o JP(8) \o width_advice \o JP(8)
            \o "- " \o JP(22) \o "- " \o JP(4) \o "1-1.5cm" \o JP(8) \o "- "
            \o JP(20) \o "- " \o JP(22) \o " " \o JP(9) \o health_advice \o JP(1)
            \o "- " \o JP(21) \o "- " \o JP(14) \o "- " \o JP(20) \o "- "
            \o JP(22)]

\* str(description): the keys and the texts of the dict, in order.
Str(description) ==
    "{'overview': '" \o description.overview
    \o "', 'shape_features': '" \o description.shape_features
    \o "', 'shoe_advice': '" \o description.shoe_advice
    \o "', 'health_notes': '" \o description.health_notes
    \o "', 'full_description': '" \o description.full_description \o "'}"

\* _get_chatgpt_description once the remote call has answered content, a
\* sequence of lines, each with the keywords of _extract_section it holds.
ChatgptDescription(content) ==
    LET \* the keywords with the number of their characters
        keywords == [overall |-> 3, shape |-> 2, shoes |-> 3, health |-> 2]
        RECURSIVE Strip(_)
        \* text.strip()
        Strip(text) ==
            IF Len(text) > 0 /\ SubSeq(text, 1, 1) = " "
            THEN Strip(SubSeq(text, 2, Len(text)))
            ELSE IF Len(text) > 0 /\ SubSeq(text, Len(text), Len(text)) = " "
            THEN Strip(SubSeq(text, 1, Len(text) - 1))
            ELSE text
        RECURSIVE Join(_)
        \* '\n'.join(lines)
        Join(lines) ==
            IF lines = <<>> THEN ""
            ELSE IF Len(lines) = 1 THEN lines[1]
            ELSE lines[1] \o JP(1) \o Join(Tail(lines))
        RECURSIVE SectionLines(_, _, _)
        \* the loop of _extract_section from line i on
        SectionLines(keyword, i, in_section) ==
            IF i > Len(content) THEN <<>>
            ELSE IF keyword \in content[i].has
            THEN <<content[i].text>> \o SectionLines(keyword, i + 1, TRUE)
            ELSE IF in_section /\ Strip(content[i].text) # "" /\ content[i].has = {}
            THEN <<content[i].text>> \o SectionLines(keyword, i + 1, TRUE)
            ELSE IF in_section /\ content[i].has # {} THEN <<>>
            ELSE SectionLines(keyword, i + 1, in_section)
        \* _extract_section(text, keyword); text.split of a str does not raise
        ExtractSection(keyword) ==
            LET section_lines == SectionLines(keyword, 1, FALSE)
            IN  IF section_lines # <<>> THEN Strip(Join(section_lines))
                ELSE JP(keywords[keyword]) \o JP(18)
    IN  [overview |-> ExtractSection("overall"),
         shape_features |-> ExtractSection("shape"),
         shoe_advice |-> ExtractSection("shoes"),
         health_notes |-> ExtractSection("health"),
         full_description |-> Join([i \in DOMAIN content |-> content[i].text])]

\* What client.chat.completions.create does: it raises, or answers a text.
Remotes ==
    {[raised |-> TRUE, content |-> <<>>]}
    \cup {[raised |-> FALSE, content |-> c] : c \in
           {<<[has |-> {"overall"}, text |-> "1. " \o JP(7) \o " 25.0cm"],
              [has |-> {}, text |-> "  E-2E"],
              [has |-> {}, text |-> ""],
              [has |-> {"shape"}, text |-> "2. " \o JP(5) \o " AHI 270"],
              [has |-> {"shoes"}, text |-> "3. " \o JP(9)],
              [has |-> {}, text |-> "ASICS 26.0cm "],
              [has |-> {"health", "shape"}, text |-> "4. " \o JP(12)]>>,
            <<[has |-> {}, text |-> JP(20)]>>,
            <<[has |-> {"overall"}, text |-> JP(6) \o " (dummy data)"],
              [has |-> {}, text |-> JP(14)]>>}}

\* The method that produces the description of a call.
Producer(has_client, remote) ==
    IF has_client /\ ~remote.raised THEN "_get_chatgpt_description"
    ELSE "_get_dummy_description"

\* analyze_foot_measurements.
AnalyzeFootMeasurements(measurements, has_client, remote) ==
    LET by_template == Producer(has_client, remote) = "_get_dummy_description"
        description == IF by_template THEN DummyDescription(measurements)
                       ELSE ChatgptDescription(remote.content)
    IN  [success |-> TRUE,
         numerical_analysis |-> measurements,
         linguistic_description |-> description,
         analysis_source |->
             IF has_client /\ ~Contains(Str(description), "dummy")
             THEN "chatgpt" ELSE "dummy"]

(***************************************************************************)
(* The handlers of api.py.  The handler of /process and the one of         *)
(* /process-with-file check the name of the upload, call process_ply_file  *)
(* on its copy and answer from the record that call returned; the handler  *)
(* of /analyze-description hands its parameters to the analyzer.  An       *)
(* HTTPException is the response FastAPI sends for it.                     *)
(***************************************************************************)
BadRequest == 400

ServerError == 500

OverviewMax == 200

HTTPException(status_code, detail) ==
    [exception |-> "HTTPException", status_code |-> status_code, detail |-> detail]

\* filename.lower().endswith('.ply')
IsPly(filename) ==
    LET upper == "ABCDEFGHIJKLMNOPQRSTUVWXYZ"
        lower == "abcdefghijklmnopqrstuvwxyz"
        low(c) == IF \E k \in 1..Len(upper) : SubSeq(upper, k, k) = c
                  THEN LET k == CHOOSE k \in 1..Len(upper) : SubSeq(upper, k, k) = c
                       IN  SubSeq(lower, k, k)
                  ELSE c
        RECURSIVE Lower(_)
        Lower(i) == IF i > Len(filename) THEN ""
                    ELSE low(SubSeq(filename, i, i)) \o Lower(i + 1)
        EndsWith(text, suffix) ==
            /\ Len(text) >= Len(suffix)
            /\ SubSeq(text, Len(text) - Len(suffix) + 1, Len(text)) = suffix
    IN  EndsWith(Lower(1), ".ply")

\* The check of the upload's name, then the call of process_ply_file.
Receive ==
    /\ pc = "request"
    /\ request.endpoint \in {"/process", "/process-with-file"}
    /\ \/ /\ ~IsPly(request.filename)
          /\ response' = HTTPException(BadRequest, "PLY" \o JP(13))
          /\ pc' = "rejected"
       \/ /\ IsPly(request.filename)
          /\ pc' = "load"
          /\ UNCHANGED response
    /\ UNCHANGED <<input, cloud, before, dims, result, emptied, plane, runs, written, env,
                 rng, drawn, peers, finished, request, client, origin>>

\* The keys of the result record a handler reads, in the order it reads them.
HandlerKeys ==
    <<"foot_length", "foot_width", "circumference", "dorsum_height_50", "ahi", "point_count">>

\* The first KeyError the reads of a handler raise on a record, if any.
ReadKeys(record) ==
    LET missing == SelectSeq(HandlerKeys, LAMBDA key : key \notin DOMAIN record)
    IN  IF missing = <<>> THEN None
        ELSE Some([exception |-> "KeyError", key |-> Head(missing)])

\* The dict handed to the analyzer: the values read from the record, which
\* the analyzer takes as they are (a length in units, the circumference in
\* hundredths of a unit), here in tenths.
Measurements(record) ==
    [foot_length |-> record.foot_length[1] * 10,
     foot_width |-> record.foot_width[1] * 10,
     circumference |-> (record.circumference[1] * 10) \div Scale,
     dorsum_height_50 |-> record.dorsum_height_50[1] * 10,
     ahi |-> record.ahi[1] * 10,
     point_count |-> record.point_count]

\* except Exception as e: HTTPException(500, prefix + str(e))
Wrapped(e) == HTTPException(ServerError, <<JP(14) \o ": ", e>>)

\* process_ply from the return of process_ply_file on.  Every exception of
\* the try block, the HTTPException of a failed run too, is wrapped.
ProcessPly ==
    /\ pc = "done"
    /\ request.endpoint = "/process"
    /\ \E remote \in Remotes :
          IF ~result.success
          THEN /\ response' = Wrapped(HTTPException(ServerError, result.error))
               /\ UNCHANGED origin
          ELSE IF ReadKeys(result) # None
          THEN /\ response' = Wrapped(ReadKeys(result)[1])
               /\ UNCHANGED origin
          ELSE LET analysis_result ==
                       AnalyzeFootMeasurements(Measurements(result), client, remote)
               IN  /\ response' =
                          [success |-> TRUE,
                           foot_length |-> result.foot_length,
                           foot_width |-> result.foot_width,
                           circumference |-> result.circumference,
                           dorsum_height_50 |-> result.dorsum_height_50,
                           ahi |-> result.ahi,
                           point_count |-> result.point_count,
                           linguistic_analysis |-> analysis_result.linguistic_description,
                           analysis_source |-> analysis_result.analysis_source,
                           original_filename |-> request.filename,
                           processed_file_available |-> written,
                           message |-> JP(12)]
                   /\ origin' = Producer(client, remote)
    /\ pc' = "answered"
    /\ UNCHANGED <<input, cloud, before, dims, result, emptied, plane, runs, written, env,
                 rng, drawn, peers, finished, request, client>>

\* process_ply_with_file from the return of process_ply_file on.  An
\* HTTPException is raised again as it is, another exception is wrapped.
ProcessPlyWithFile ==
    /\ pc = "done"
    /\ request.endpoint = "/process-with-file"
    /\ \E remote \in Remotes :
          IF ~result.success
          THEN /\ response' = HTTPException(ServerError, result.error)
               /\ UNCHANGED origin
          ELSE IF ~written
          THEN /\ response' = HTTPException(ServerError, JP(17))
               /\ UNCHANGED origin
          ELSE IF ReadKeys(result) # None
          THEN /\ response' = Wrapped(ReadKeys(result)[1])
               /\ UNCHANGED origin
          ELSE LET analysis_result ==
                       AnalyzeFootMeasurements(Measurements(result), client, remote)
                   overview == analysis_result.linguistic_description.overview
                   overview_text == IF Len(overview) > OverviewMax
                                    THEN SubSeq(overview, 1, OverviewMax) \o "..."
                                    ELSE overview
                   \* str(x) of the float x: a whole number, or hundredths
                   str(x) == ToString(x) \o ".0"
                   str100(x) ==
                       ToString(x \div Scale) \o "." \o ToString((x % Scale) \div 10)
                       \o (IF x % 10 = 0 THEN "" ELSE ToString(x % 10))
               IN  /\ response' =
                          [path |-> OutputFile,
                           filename |-> "processed_" \o "%Y%m%d_%H%M%S" \o ".ply",
                           headers |->
                               [foot_length |-> str(result.foot_length[1]),
                                foot_width |-> str(result.foot_width[1]),
                                circumference |-> str100(result.circumference[1]),
                                dorsum_height_50 |-> str(result.dorsum_height_50[1]),
                                ahi |-> str(result.ahi[1]),
                                point_count |-> ToString(result.point_count),
                                processing_success |-> "true",
                                analysis_source |-> analysis_result.analysis_source,
                                analysis_overview_b64 |-> <<"b64", overview_text>>],
                           media_type |-> "application/octet-stream"]
                   /\ origin' = Producer(client, remote)
    /\ pc' = "answered"
    /\ UNCHANGED <<input, cloud, before, dims, result, emptied, plane, runs, written, env,
                 rng, drawn, peers, finished, request, client>>

\* analyze_foot_description: the parameters go to the analyzer as they are.
\* The remote call is made only when the analyzer holds a client.
AnalyzeFootDescription ==
    /\ pc = "request"
    /\ request.endpoint = "/analyze-description"
    /\ \E remote \in IF client THEN Remotes ELSE {[raised |-> TRUE, content |-> <<>>]} :
          LET analysis_result ==
                  AnalyzeFootMeasurements(request.measurements, client, remote)
          IN  /\ response' =
                     [success |-> TRUE,
                      measurements |-> request.measurements,
                      linguistic_analysis |-> analysis_result.linguistic_description,
                      analysis_source |-> analysis_result.analysis_source,
                      message |-> JP(14)]
              /\ origin' = Producer(client, remote)
    /\ pc' = "analyzed"
    /\ UNCHANGED <<input, cloud, before, dims, result, emptied, plane, runs, written, env,
                 rng, drawn, peers, finished, request, client>>

\* FootAnalysisDescriptor.__init__: a client exists when a key is given or
\* set in the environment and OpenAI(api_key) does not raise.
HasClient(api_key, env_key, constructed) ==
    (api_key # None \/ env_key # None) /\ constructed

\* The requests: an upload to one of the two processing endpoints, or the
\* six parameters of /analyze-description in tenths.
Requests ==
    [endpoint : {"/process", "/process-with-file"},
     filename : {"scan.ply", "Foot.PLY", "scan.txt", "ply"}]
    \cup [endpoint : {"/analyze-description"},
          measurements : [foot_length : {0, 235, 255, 280},
                          foot_width : {90, 100, 115},
                          circumference : {240},
                          dorsum_height_50 : {60, 75},
                          ahi : {2400, 2700, 3100},
                          point_count : {1200}]]

InitApi ==
    /\ pc = "request"
    /\ request \in Requests
    /\ input \in IF request.endpoint = "/analyze-description" THEN {PlyFile(<<>>)}
                 ELSE BrokenFiles \cup RepeatFiles
    /\ cloud = NoCloud
    /\ before = NoCloud
    /\ dims = NoDims
    /\ result = NoResult
    /\ emptied = Nil
    /\ plane = NoPlane
    /\ runs = 0
    /\ written = FALSE
    /\ env \in [scipy : {TRUE}, u_based : {TRUE}]
    /\ NoCalls
    /\ response = None
    /\ \E env_key \in {None, Some("sk")}, constructed \in BOOLEAN :
          client = HasClient(None, env_key, constructed)
    /\ origin = Nil

NextApi == Receive \/ Next \/ ProcessPly \/ ProcessPlyWithFile \/ AnalyzeFootDescription

SpecApi == InitApi /\ [][NextApi]_vars

(***************************************************************************)
(* C21: whenever process_ply_file returns success = True, the record it    *)
(* returns holds every field the handlers of /process and                  *)
(* /process-with-file read from it (foot_length, foot_width,               *)
(* circumference, dorsum_height_50, ahi, point_count), and the handler     *)
(* answers with a success response that carries these measurements.        *)
(***************************************************************************)
Succeeded(r) == "exception" \notin DOMAIN r

Carried(r) == IF "headers" \in DOMAIN r THEN r.headers ELSE r

C21_SuccessAnswered ==
    /\ (pc \in {"done", "answered"} /\ result.success) =>
          \A i \in DOMAIN HandlerKeys : HandlerKeys[i] \in DOMAIN result
    /\ (pc = "answered" /\ result.success) =>
          /\ Succeeded(response)
          /\ \A i \in DOMAIN HandlerKeys : HandlerKeys[i] \in DOMAIN Carried(response)

\* What the handlers do with a success record: the read of dorsum_height_50
\* raises KeyError and the answer is the 500 of the outer handler.
C21_KeyErrorAnswered ==
    (pc = "answered" /\ result.success) =>
        /\ ~Succeeded(response)
        /\ response.status_code = ServerError
        /\ response.detail[2] = [exception |-> "KeyError", key |-> "dorsum_height_50"]

C21_Reached == pc = "answered" /\ result.success

(***************************************************************************)
(* C22: analyze_foot_measurements reports analysis_source = "chatgpt" only *)
(* when the description it returns was produced by the remote call; when   *)
(* the description was produced by the local template (no client, or the   *)
(* remote call failed and the fallback ran) the reported source is a dummy *)
(* source, never "chatgpt".                                                *)
(***************************************************************************)
C22_SourceOfDescription ==
    pc = "analyzed" =>
        /\ response.analysis_source = "chatgpt" => origin = "_get_chatgpt_description"
        /\ origin = "_get_dummy_description" =>
              response.analysis_source \in {"dummy", "dummy_fallback"}

\* What the code reports: no text of the template holds "dummy", so a
\* description of the template is reported as "chatgpt" exactly when the
\* analyzer holds a client; without a client the source is "dummy".
C22_TemplateUnmarked ==
    (pc = "analyzed" /\ origin = "_get_dummy_description") =>
        /\ response.linguistic_analysis = DummyDescription(request.measurements)
        /\ ~Contains(Str(response.linguistic_analysis), "dummy")
        /\ response.analysis_source = IF client THEN "chatgpt" ELSE "dummy"

C22_FallbackRan == pc = "analyzed" /\ client /\ origin = "_get_dummy_description"

C22_RemoteMarked ==
    /\ pc = "analyzed"
    /\ origin = "_get_chatgpt_description"
    /\ response.analysis_source = "dummy"

====
